---- MODULE Spec2Model ----
(***************************************************************************)
(* Sakura no Hana: the entity/component world of source/main.cpp, its      *)
(* systems (physics, collision effects, life, particle watcher), the event *)
(* drain of World::update and the deferred-deletion sweep.                 *)
(*                                                                         *)
(* Units.  Lengths are in half pixels (Px(n) is n pixels), durations in    *)
(* milliseconds, velocities in half pixels per second.  With the frame     *)
(* times of DtSet every product velocity * dt of the program is a whole    *)
(* number of half pixels.  The float arithmetic of the source itself is    *)
(* modelled bit by bit in the operators F... and used where a property     *)
(* depends on rounding (SpecFloat, the alpha of the particles).            *)
(***************************************************************************)
EXTENDS Integers, Sequences, FiniteSets, TLC

VARIABLES
    difficulty,            \* World::m_difficulty
    pc,                    \* position of the main loop / of World::update
    tick,                  \* number of World::update calls completed
    windowOpen,            \* sf::RenderWindow::isOpen()
    dt,                    \* the (clamped) time step of the running update
    m_entities,            \* World::m_entities
    m_components,          \* World::m_components (component registry)
    lastid,                \* kantan::Entity::m_lastid
    nextComp,              \* next component address handed out by new T()
    m_player,              \* World::m_player
    physCollisions,        \* PhysicSystem::m_collisions
    m_collisions,          \* CollisionEffectsSystem::m_collisions
    ci,                    \* index of the range-for in CollisionEffectsSystem::update
    m_eventQueue,          \* World::m_eventQueue
    m_isRunning,           \* World::m_isRunning
    m_colorAffinity,       \* World::m_colorAffinity
    m_score,               \* World::m_score
    m_combo,               \* World::m_combo
    m_lastSugoiDisplay,    \* World::m_lastSugoiDisplay
    m_lastAffinityChange,  \* World::m_lastAffinityChange
    m_lastSakuraShoot,     \* World::m_lastSakuraShoot
    m_lastBallSpawn,       \* World::m_lastBallSpawn
    sounds,                \* audio cues played by the last step
    deletedEntities,       \* history: entities passed to delete
    deletedComponents,     \* history: components passed to delete
    deathLog,              \* history: <<tick, entity>> of every EntityDeath pushed
    zeroTick,              \* history: entity -> tick at which lifepoints first were <= 0
    physPre,               \* history: entity list before the last PhysicSystem::update
    handled,               \* history: the event handled by the last drain step
    ret                    \* history: the last call of a member function of kantan::Entity

vars == <<difficulty, pc, tick, windowOpen, dt, m_entities, m_components, lastid,
          nextComp, m_player, physCollisions, m_collisions, ci, m_eventQueue,
          m_isRunning, m_colorAffinity, m_score, m_combo, m_lastSugoiDisplay,
          m_lastAffinityChange, m_lastSakuraShoot, m_lastBallSpawn, sounds,
          deletedEntities, deletedComponents, deathLog, zeroTick, physPre, handled, ret>>

(***************************************************************************)
(* Bounds of the model.                                                    *)
(***************************************************************************)
MaxTicks == 3

\* Frame times returned by gameclock.restart(), in milliseconds.
DtSet == {500, 800}

\* Results of the random draw of createBall, in pixels.
BallXs == {65}

(***************************************************************************)
(* Units and small helpers.                                                *)
(***************************************************************************)
Px(n) == 2 * n

\* velocity (half pixels per second) * elapsed.asSeconds()
Displacement(v, d) == (v * d) \div 1000

\* movement / elapsed.asSeconds()
VelocityOf(m, d) == (m * 1000) \div d

Max2(a, b) == IF a >= b THEN a ELSE b
Min2(a, b) == IF a <= b THEN a ELSE b

Difficulties == {"EASY", "NORMAL", "HARD", "JAPANESE"}

Colors == {"Red", "Blue", "Green", "Yellow"}

(***************************************************************************)
(* Tunable constants, set per difficulty by World::World.                  *)
(***************************************************************************)
COMBO_MIN(d) ==
    CASE d = "EASY" -> 5 [] d = "NORMAL" -> 5 [] d = "HARD" -> 10 [] d = "JAPANESE" -> 20

LIFE_POINTS(d) ==
    CASE d = "EASY" -> 8 [] d = "NORMAL" -> 5 [] d = "HARD" -> 3 [] d = "JAPANESE" -> 1

BALL_VELOCITY(d) ==
    CASE d = "EASY" -> Px(300) [] d = "NORMAL" -> Px(300) [] d = "HARD" -> Px(400)
      [] d = "JAPANESE" -> Px(450)

SAKURA_VELOCITY(d) == -BALL_VELOCITY(d)

SUGOI_COMBO(d) ==
    CASE d = "EASY" -> 10 [] d = "NORMAL" -> 10 [] d = "HARD" -> 20 [] d = "JAPANESE" -> 50

BALLS_INTERVAL(d) ==
    CASE d = "EASY" -> 1000 [] d = "NORMAL" -> 750 [] d = "HARD" -> 250
      [] d = "JAPANESE" -> 150

PLAYER_SPEED(d) ==
    CASE d = "EASY" -> Px(500) [] d = "NORMAL" -> Px(500) [] d = "HARD" -> Px(525)
      [] d = "JAPANESE" -> Px(550)

SHOOT_INTERVAL(d) ==
    CASE d = "EASY" -> 250 [] d = "NORMAL" -> 250 [] d = "HARD" -> 225
      [] d = "JAPANESE" -> 200

\* in milliseconds (the source compares with sf::seconds)
AFFINITY_CHANGE_INTERVAL(d) ==
    CASE d = "EASY" -> 30000 [] d = "NORMAL" -> 25000 [] d = "HARD" -> 15000
      [] d = "JAPANESE" -> 5000

\* if(dt.asSeconds() > 0.5f) dt = sf::seconds(0.5f);
MAX_STEP == 500

\* m_lastSugoiDisplay(sf::seconds(1000.f))
SUGOI_DISPLAY_INIT == 1000000

\* particles->lifetime >= sf::seconds(2.f)
EMITTER_LIFETIME == 2000

\* side of a wall box and of a ball, in pixels
BOX_SIZE == 64

\* media/textures/player.png and littlesakura.png: sizes of the sprites that
\* addPlayer and shootSakura copy into the hitboxes, in pixels
PLAYER_SIZE == 64
SAKURA_SIZE == 32

(***************************************************************************)
(* The float arithmetic of the source (IEEE 754 binary32, round to nearest *)
(* even, every operation rounded to float).  A float is [s, m, e] with     *)
(* value s * m * 2^e, s in {1, -1}, and m = 0 (zero) or 2^23 <= m < 2^24.  *)
(* NaN and the infinities, which a division by zero produces, are the      *)
(* records with m = 1 and m = 2.  Subnormals and overflow do not occur on  *)
(* the values drawn; the sign of a zero is not kept (every divisor of the  *)
(* source is a time, which is never negative).                             *)
(***************************************************************************)
FZero == [s |-> 1, m |-> 0, e |-> 0]

FNaN == [s |-> 1, m |-> 1, e |-> 0]

FInf(s) == [s |-> s, m |-> 2, e |-> 0]

IsNaN(a) == a.m = 1

IsInf(a) == a.m = 2

\* Number of low bits to drop from n >= 2^23 so that 2^23 <= n \div 2^k < 2^24
RECURSIVE DropBits(_)
DropBits(n) == IF n < 2^24 THEN 0 ELSE 1 + DropBits(n \div 2)

\* Number of places to shift 0 < n < 2^24 left so that 2^23 <= n * 2^k
RECURSIVE LiftBits(_)
LiftBits(n) == IF n >= 2^23 THEN 0 ELSE 1 + LiftBits(n * 2)

\* The float nearest to s * (n + t) * 2^e, where 0 <= n < 2^31 and t is a
\* fraction in [0, 1) that is not zero exactly when sticky; ties go to even.
\* With sticky set, n >= 2^24.  (The operands of every operation below are
\* bound through a singleton set, which evaluates each of them once.)
FRound(s, n, e, sticky) ==
    CHOOSE f \in
      { IF nv = 0 THEN FZero
        ELSE IF nv < 2^24
        THEN CHOOSE g \in {[s |-> s, m |-> nv * 2^k, e |-> e - k] : k \in {LiftBits(nv)}} : TRUE
        ELSE CHOOSE g \in
               { LET q    == nv \div 2^k
                     r    == nv % 2^k
                     half == 2^(k - 1)
                     up   == r > half \/ (r = half /\ (sticky \/ q % 2 = 1))
                 IN  IF up /\ q + 1 = 2^24 THEN [s |-> s, m |-> 2^23, e |-> e + k + 1]
                     ELSE IF up THEN [s |-> s, m |-> q + 1, e |-> e + k]
                     ELSE [s |-> s, m |-> q, e |-> e + k]
                 : k \in {DropBits(nv)} }
               : TRUE
        : nv \in {n} }
      : TRUE

\* Conversion of an integer of magnitude below 2^31
FromInt(n) == IF n < 0 THEN FRound(-1, -n, 0, FALSE) ELSE FRound(1, n, 0, FALSE)

FNeg(a) ==
    CHOOSE f \in {IF x.m = 0 \/ IsNaN(x) THEN x ELSE [x EXCEPT !.s = -x.s] : x \in {a}} : TRUE

\* a * b: the 48-bit product of the mantissas from 12-bit halves, rounded once
FMul(a, b) ==
    CHOOSE f \in
      { IF IsNaN(x) \/ IsNaN(y) THEN FNaN
        ELSE IF IsInf(x) \/ IsInf(y)
        THEN (IF x.m = 0 \/ y.m = 0 THEN FNaN ELSE FInf(x.s * y.s))
        ELSE IF x.m = 0 \/ y.m = 0 THEN FZero
        ELSE LET a1  == x.m \div 2^12
                 a0  == x.m % 2^12
                 b1  == y.m \div 2^12
                 b0  == y.m % 2^12
                 mid == a1 * b0 + a0 * b1
                 t   == (mid % 2^12) * 2^12 + a0 * b0
                 lo  == t % 2^24
                 hi  == a1 * b1 + mid \div 2^12 + t \div 2^24
             IN  FRound(x.s * y.s, hi * 2^6 + lo \div 2^18, x.e + y.e + 18, lo % 2^18 # 0)
        : x \in {a}, y \in {b} }
      : TRUE

\* Long division: n more quotient bits of (q + r / d)
RECURSIVE DivBits(_, _, _, _)
DivBits(q, r, d, n) ==
    IF n = 0 THEN [q |-> q, r |-> r]
    ELSE CHOOSE f \in
           { DivBits(q1, r1, d, n - 1)
             : q1 \in {IF 2 * r >= d THEN 2 * q + 1 ELSE 2 * q},
               r1 \in {IF 2 * r >= d THEN 2 * r - d ELSE 2 * r} }
           : TRUE

\* a / b: 26 fraction bits of the quotient of the mantissas and a sticky bit
\* for the remainder, rounded once; 0 / 0 and inf / inf are NaN, x / 0 is an
\* infinity
FDiv(a, b) ==
    CHOOSE f \in
      { IF IsNaN(x) \/ IsNaN(y) THEN FNaN
        ELSE IF IsInf(x) THEN (IF IsInf(y) THEN FNaN ELSE FInf(x.s * y.s))
        ELSE IF IsInf(y) THEN FZero
        ELSE IF y.m = 0 THEN (IF x.m = 0 THEN FNaN ELSE FInf(x.s))
        ELSE IF x.m = 0 THEN FZero
        ELSE CHOOSE g \in
               { FRound(x.s * y.s, d.q, x.e - y.e - 26, d.r # 0)
                 : d \in {DivBits(x.m \div y.m, x.m % y.m, y.m, 26)} }
               : TRUE
        : x \in {a}, y \in {b} }
      : TRUE

\* |a| < |b|, for operands that are not NaN
FMagLess(a, b) ==
    IF IsInf(b) THEN ~IsInf(a)
    ELSE IF IsInf(a) THEN FALSE
    ELSE IF b.m = 0 THEN FALSE
    ELSE IF a.m = 0 THEN TRUE
    ELSE a.e < b.e \/ (a.e = b.e /\ a.m < b.m)

\* The sum of x and y, |x| >= |y|, neither zero: x with 6 guard bits, y
\* shifted to the scale of x with a sticky bit for what the shift drops
FAddOrdered(x, y) ==
    LET sh     == x.e - y.e
        nx     == x.m * 2^6
        ny     == IF sh > 30 THEN 0 ELSE (y.m * 2^6) \div 2^sh
        sticky == IF sh > 30 THEN TRUE ELSE (y.m * 2^6) % 2^sh # 0
    IN  IF x.s = y.s THEN FRound(x.s, nx + ny, x.e - 6, sticky)
        ELSE IF sticky THEN FRound(x.s, nx - ny - 1, x.e - 6, TRUE)
        ELSE FRound(x.s, nx - ny, x.e - 6, FALSE)

\* a + b
FAdd(a, b) ==
    CHOOSE f \in
      { IF IsNaN(x) \/ IsNaN(y) THEN FNaN
        ELSE IF IsInf(x) THEN (IF IsInf(y) /\ x.s # y.s THEN FNaN ELSE x)
        ELSE IF IsInf(y) THEN y
        ELSE IF x.m = 0 THEN y
        ELSE IF y.m = 0 THEN x
        ELSE IF FMagLess(x, y) THEN FAddOrdered(y, x) ELSE FAddOrdered(x, y)
        : x \in {a}, y \in {b} }
      : TRUE

FSub(a, b) == FAdd(a, FNeg(b))

\* a < b (false when an operand is NaN)
FLess(a, b) ==
    CHOOSE f \in
      { IF IsNaN(x) \/ IsNaN(y) THEN FALSE
        ELSE IF x.s # y.s THEN (x.s = -1 /\ (x.m # 0 \/ y.m # 0))
        ELSE IF x.s = 1 THEN FMagLess(x, y) ELSE FMagLess(y, x)
        : x \in {a}, y \in {b} }
      : TRUE

\* a <= b (false when an operand is NaN)
FLeq(a, b) ==
    CHOOSE f \in {~IsNaN(x) /\ ~IsNaN(y) /\ ~FLess(y, x) : x \in {a}, y \in {b}} : TRUE

\* std::max(a, b) and std::min(a, b): the first argument unless the test holds

FMax(a, b) == CHOOSE f \in {IF FLess(x, y) THEN y ELSE x : x \in {a}, y \in {b}} : TRUE

FMin(a, b) == CHOOSE f \in {IF FLess(y, x) THEN y ELSE x : x \in {a}, y \in {b}} : TRUE

\* sf::Time::asSeconds of a time of us microseconds
Seconds(us) == FDiv(FromInt(us), FromInt(1000000))

\* The integer part of a float of magnitude below 2^31 (truncation toward zero)
FTrunc(a) ==
    CHOOSE n \in
      { IF x.e >= 0 THEN x.s * x.m * 2^x.e
        ELSE IF x.e < -30 THEN 0
        ELSE x.s * (x.m \div 2^(-x.e))
        : x \in {a} }
      : TRUE

(***************************************************************************)
(* Entities and components.  An entity is a record; comps maps the names   *)
(* of the attached components to their addresses, the other fields hold    *)
(* the data of the components (meaningful when the component is attached). *)
(***************************************************************************)
Rect(l, t, w, h) == [left |-> l, top |-> t, width |-> w, height |-> h]

Vec(x, y) == [x |-> x, y |-> y]

NoComps == [n \in {} |-> 0]

\* kantan::Entity::Entity and the default constructors of the components
NewEntity(id, name) ==
    [id |-> id, name |-> name, comps |-> NoComps,
     toDelete |-> FALSE,                                  \* DeletionMarkerComponent
     hitbox |-> Rect(0, 0, 0, 0), isBlocking |-> TRUE,    \* HitboxComponent
     velocity |-> Vec(0, 0),                              \* MovementComponent
     lifepoints |-> 0, alive |-> TRUE,                    \* LifeComponent
     texLeft |-> 0, texSize |-> 0, spritePos |-> Vec(0, 0), \* SpriteComponent
     plifetime |-> 0, pcolor |-> "Red", pcenter |-> Vec(0, 0), \* ParticleComponent
     particles |-> <<>>]                                  \* m_particles, m_vertices

\* kantan::Entity::hasComponent
hasComponent(e, name) == name \in DOMAIN e.comps

\* kantan::Entity::addComponent
addComponent(e, name, addr) ==
    [e EXCEPT !.comps = [n \in (DOMAIN e.comps) \cup {name} |->
                            IF n = name THEN addr ELSE e.comps[n]]]

\* kantan::Entity::getAllComponents, as the set of addresses
getAllComponents(e) == {e.comps[n] : n \in DOMAIN e.comps}

\* kantan::Entity::removeComponent
removeComponent(e, name) ==
    [e EXCEPT !.comps = [n \in (DOMAIN e.comps) \ {name} |-> e.comps[n]]]

\* The classes getComponent<T> is instantiated with: the component classes,
\* named as their constructors name their instances, and the base class
ComponentNames == {"DeletionMarker", "Hitbox", "Movement", "Life", "Sprite"}

TypeNames == ComponentNames \cup {"Component"}

\* dynamic_cast<T*> of a component of dynamic type cls succeeds: cls is T or
\* derives from T (every component class derives from kantan::Component only)
CastsTo(cls, T) == T = cls \/ T = "Component"

\* Result of a lookup that allows a static cast of any stored pointer
getComponentUnchecked(e, T, name) ==
    [ent |-> e, value |-> IF name \in DOMAIN e.comps THEN e.comps[name] ELSE 0]

\* kantan::Entity::getComponent<T>: the entity as the call leaves it and the
\* pointer returned (0 is nullptr).  The component stored under a name is an
\* instance of the class that carries this name.
getComponent(e, T, name) ==
    [ent   |-> e,
     value |-> IF name \in DOMAIN e.comps
               THEN (IF CastsTo(name, T) THEN e.comps[name] ELSE 0)
               ELSE 0]

\* No member function of the entity has been called yet
NoCall == [op |-> "none", name |-> "", type |-> "", value |-> 0,
           before |-> NewEntity(0, "")]

\* The part of the world the factories change.
WorldOf(ents, comps, lid, nc) ==
    [ents |-> ents, comps |-> comps, lastid |-> lid, nextComp |-> nc]

\* World::createComponent: the address of the new component is w.nextComp
createComponent(w) ==
    [w EXCEPT !.comps = Append(w.comps, w.nextComp), !.nextComp = w.nextComp + 1]

\* An entity pushed to the list with no deletion marker
createEntityUnmarked(w, name) ==
    [w EXCEPT !.ents = Append(w.ents, NewEntity(w.lastid + 1, name)), !.lastid = w.lastid + 1]

\* World::createEntity: the new entity is the last of the list
createEntity(w, name) ==
    LET w1 == createComponent(w)
        e  == addComponent(NewEntity(w.lastid + 1, name), "DeletionMarker", w.nextComp)
    IN  [w1 EXCEPT !.ents = Append(w1.ents, e), !.lastid = w.lastid + 1]

\* Attach freshly created components (one createComponent each) to the last entity.
RECURSIVE AttachAll(_, _)
AttachAll(w, names) ==
    IF names = <<>> THEN w
    ELSE LET w1 == createComponent(w)
             n  == Len(w1.ents)
         IN  AttachAll([w1 EXCEPT !.ents[n] = addComponent(w1.ents[n], Head(names), w.nextComp)],
                       Tail(names))

\* World::createBox
createBox(w, x, y) ==
    LET w1 == AttachAll(createEntity(w, "Box"), <<"Sprite", "Hitbox", "Animation">>)
        n  == Len(w1.ents)
    IN  [w1 EXCEPT !.ents[n] = [w1.ents[n] EXCEPT
            !.texLeft = 0, !.texSize = Px(BOX_SIZE),
            !.hitbox = Rect(Px(x), Px(y), Px(BOX_SIZE), Px(BOX_SIZE))]]

\* Positions of the boxes of World::buildWalls in creation order, in pixels:
\* the left wall, the bottom wall, the right wall.
WallPositions ==
    [i \in 1..12 |-> Vec(0, BOX_SIZE * (i - 1))]
      \o [i \in 1..10 |-> Vec(BOX_SIZE * i, 704)]
      \o [i \in 1..12 |-> Vec(704, BOX_SIZE * (i - 1))]

\* World::buildWalls: the k-th createBox runs after k - 1 others, each of which
\* made one entity and four components.
buildWalls(w) ==
    LET n      == Len(WallPositions)
        box(k) == createBox(WorldOf(<<>>, <<>>, w.lastid + (k - 1), w.nextComp + 4 * (k - 1)),
                            WallPositions[k].x, WallPositions[k].y).ents[1]
    IN  WorldOf(w.ents \o [k \in 1..n |-> box(k)],
                w.comps \o [a \in 1..(4 * n) |-> w.nextComp + (a - 1)],
                w.lastid + n, w.nextComp + 4 * n)

\* World::addPlayer
addPlayer(w, d) ==
    LET w1 == AttachAll(createEntity(w, "Player"), <<"Sprite", "Hitbox", "Movement", "Life">>)
        n  == Len(w1.ents)
    IN  [w1 EXCEPT !.ents[n] = [w1.ents[n] EXCEPT
            !.texSize = Px(PLAYER_SIZE),
            !.hitbox = Rect(Px(65), Px(640), Px(PLAYER_SIZE), Px(PLAYER_SIZE)),
            !.velocity = Vec(0, 0),
            !.lifepoints = LIFE_POINTS(d)]]

\* World::shootSakura
shootSakura(w, d, pos) ==
    LET w1 == AttachAll(createEntity(w, "Sakura"), <<"Sprite", "Hitbox", "Movement", "Life">>)
        n  == Len(w1.ents)
    IN  [w1 EXCEPT !.ents[n] = [w1.ents[n] EXCEPT
            !.texSize = Px(SAKURA_SIZE),
            !.hitbox = Rect(pos.x, pos.y, Px(SAKURA_SIZE), Px(SAKURA_SIZE)),
            !.isBlocking = FALSE,
            !.velocity = Vec(0, SAKURA_VELOCITY(d)),
            !.lifepoints = 1]]

\* World::createBall; x is randomX in pixels, col is randomColor
createBall(w, d, x, col) ==
    LET w1 == AttachAll(createEntity(w, "Ball"), <<"Sprite", "Hitbox", "Movement", "Life">>)
        n  == Len(w1.ents)
    IN  [w1 EXCEPT !.ents[n] = [w1.ents[n] EXCEPT
            !.texLeft = col, !.texSize = Px(BOX_SIZE),
            !.hitbox = Rect(Px(x), Px(-64), Px(BOX_SIZE), Px(BOX_SIZE)),
            !.isBlocking = FALSE,
            !.velocity = Vec(0, BALL_VELOCITY(d)),
            !.lifepoints = 1]]

\* Number of particles of a pool (m_particles(1000) in the source)
PoolSize == 1

\* The longest lifetime a particle is constructed with: (std::rand() % 2000) + 1000
LONGEST_LIFETIME == 2999

\* A particle constructed with lifetime l (in ms) and its vertex after
\* ParticleComponent::init: the colours events carry are opaque.  `initial`
\* is history: the lifetime the particle was constructed with.
Particle(l) == [lifetime |-> l, initial |-> l, alpha |-> 255]

\* World::createExplosion; the particles are drawn with the longest lifetime
createExplosion(w, color, position) ==
    LET w1 == AttachAll(createEntity(w, "Explosion"), <<"Particle">>)
        n  == Len(w1.ents)
    IN  [w1 EXCEPT !.ents[n] = [w1.ents[n] EXCEPT
            !.pcolor = color, !.pcenter = position, !.plifetime = 0,
            !.particles = [k \in 1..PoolSize |-> Particle(LONGEST_LIFETIME)]]]

\* std::vector::erase of the element at index i
EraseAt(s, i) == [k \in 1..(Len(s) - 1) |-> IF k < i THEN s[k] ELSE s[k + 1]]

\* Index of the entity with the given identity in a list (0 when absent).
IndexOf(ents, id) ==
    IF \E i \in 1..Len(ents) : ents[i].id = id
    THEN CHOOSE i \in 1..Len(ents) : ents[i].id = id
    ELSE 0

Ids(ents) == {ents[i].id : i \in 1..Len(ents)}

(***************************************************************************)
(* PhysicSystem.                                                           *)
(***************************************************************************)
\* sf::FloatRect::intersects, for rectangles of non-negative size
Intersects(a, b) ==
    /\ Max2(a.left, b.left) < Min2(a.left + a.width, b.left + b.width)
    /\ Max2(a.top, b.top) < Min2(a.top + a.height, b.top + b.height)

\* The hitbox of fst with the movement applied to it (fstNewHitbox).
Moved(h, v, d) ==
    [h EXCEPT !.left = h.left + Displacement(v.x, d), !.top = h.top + Displacement(v.y, d)]

\* A lookup that tests the horizontal sides before the vertical ones
CollisionSideHorizontalFirst(f, s) ==
    IF f.left + f.width <= s.left THEN "right"
    ELSE IF f.left >= s.left + s.width THEN "left"
    ELSE IF f.top + f.height <= s.top THEN "bottom"
    ELSE IF f.top >= s.top + s.height THEN "top"
    ELSE "intern"

\* The side of the collision, looked up on the hitboxes before the movement.
CollisionSideStrict(f, s) ==
    IF f.top + f.height < s.top THEN "bottom"
    ELSE IF f.top >= s.top + s.height THEN "top"
    ELSE IF f.left + f.width <= s.left THEN "right"
    ELSE IF f.left >= s.left + s.width THEN "left"
    ELSE "intern"
CollisionSide(f, s) ==
    IF f.top + f.height <= s.top THEN "bottom"
    ELSE IF f.top >= s.top + s.height THEN "top"
    ELSE IF f.left + f.width <= s.left THEN "right"
    ELSE IF f.left >= s.left + s.width THEN "left"
    ELSE "intern"

\* A correction that stops fst when it already overlaps snd
CorrectedMovementStop(f, v, s, d) ==
    LET movement == Vec(Displacement(v.x, d), Displacement(v.y, d))
        side     == CollisionSide(f, s)
    IN  IF ~Intersects(Moved(f, v, d), s) THEN movement
        ELSE IF side = "bottom" THEN [movement EXCEPT !.y = s.top - (f.top + f.height)]
        ELSE IF side = "top" THEN [movement EXCEPT !.y = -(f.top - (s.top + s.height))]
        ELSE IF side = "right" THEN [movement EXCEPT !.x = s.left - (f.left + f.width)]
        ELSE IF side = "left" THEN [movement EXCEPT !.x = -(f.left - (s.left + s.width))]
        ELSE Vec(0, 0)

\* The movement of fst after the test against snd: the effective movement,
\* corrected on one axis when the moved hitbox intersects the hitbox of snd.
CorrectedMovement(f, v, s, d) ==
    LET movement == Vec(Displacement(v.x, d), Displacement(v.y, d))
        side     == CollisionSide(f, s)
    IN  IF ~Intersects(Moved(f, v, d), s) THEN movement
        ELSE IF side = "bottom" THEN [movement EXCEPT !.y = s.top - (f.top + f.height)]
        ELSE IF side = "top" THEN [movement EXCEPT !.y = -(f.top - (s.top + s.height))]
        ELSE IF side = "right" THEN [movement EXCEPT !.x = s.left - (f.left + f.width)]
        ELSE IF side = "left" THEN [movement EXCEPT !.x = -(f.left - (s.left + s.width))]
        ELSE movement

\* An inner loop that corrects the velocity of fst whatever the blocking flags
RECURSIVE PhysicsInnerAlways(_, _, _, _, _)
PhysicsInnerAlways(ents, st, i, j, d) ==
    IF j > Len(ents) THEN st
    ELSE IF i = j \/ ~hasComponent(ents[j], "Hitbox") \/ ~hasComponent(ents[i], "Movement")
         THEN PhysicsInnerAlways(ents, st, i, j + 1, d)
         ELSE LET fst      == ents[i]
                  snd      == ents[j]
                  movement == CorrectedMovement(fst.hitbox, st.v, snd.hitbox, d)
                  v1       == Vec(VelocityOf(movement.x, d), VelocityOf(movement.y, d))
              IN  IF Intersects(Moved(fst.hitbox, st.v, d), snd.hitbox)
                  THEN PhysicsInnerAlways(ents, [v |-> v1, rec |-> Append(st.rec, <<fst.id, snd.id>>)],
                                          i, j + 1, d)
                  ELSE PhysicsInnerAlways(ents, [v |-> v1, rec |-> st.rec], i, j + 1, d)

\* An inner loop that also checks fst against itself
RECURSIVE PhysicsInnerSelf(_, _, _, _, _)
PhysicsInnerSelf(ents, st, i, j, d) ==
    IF j > Len(ents) THEN st
    ELSE IF ~hasComponent(ents[j], "Hitbox") \/ ~hasComponent(ents[i], "Movement")
         THEN PhysicsInnerSelf(ents, st, i, j + 1, d)
         ELSE LET fst      == ents[i]
                  snd      == ents[j]
                  movement == CorrectedMovement(fst.hitbox, st.v, snd.hitbox, d)
                  v1       == IF fst.isBlocking /\ snd.isBlocking
                              THEN Vec(VelocityOf(movement.x, d), VelocityOf(movement.y, d))
                              ELSE st.v
              IN  IF Intersects(Moved(fst.hitbox, st.v, d), snd.hitbox)
                  THEN PhysicsInnerSelf(ents, [v |-> v1, rec |-> Append(st.rec, <<fst.id, snd.id>>)],
                                        i, j + 1, d)
                  ELSE PhysicsInnerSelf(ents, [v |-> v1, rec |-> st.rec], i, j + 1, d)

\* The inner loop of PhysicSystem::update: fst = ents[i] against snd = ents[j..].
\* Only the velocity of fst and the record change in this loop: st is [v, rec],
\* the velocity of fst and the collision record so far.
RECURSIVE PhysicsInner(_, _, _, _, _)
PhysicsInner(ents, st, i, j, d) ==
    IF j > Len(ents) THEN st
    ELSE IF i = j \/ ~hasComponent(ents[j], "Hitbox") \/ ~hasComponent(ents[i], "Movement")
         THEN PhysicsInner(ents, st, i, j + 1, d)
         ELSE LET fst      == ents[i]
                  snd      == ents[j]
                  movement == CorrectedMovement(fst.hitbox, st.v, snd.hitbox, d)
                  v1       == IF fst.isBlocking /\ snd.isBlocking
                              THEN Vec(VelocityOf(movement.x, d), VelocityOf(movement.y, d))
                              ELSE st.v
              IN  IF Intersects(Moved(fst.hitbox, st.v, d), snd.hitbox)
                  THEN PhysicsInner(ents, [v |-> v1, rec |-> Append(st.rec, <<fst.id, snd.id>>)],
                                    i, j + 1, d)
                  ELSE PhysicsInner(ents, [v |-> v1, rec |-> st.rec], i, j + 1, d)

\* An outer loop that takes every entity as fst
RECURSIVE PhysicsOuterUnguarded(_, _, _)
PhysicsOuterUnguarded(st, i, d) ==
    IF i > Len(st.ents) THEN st
    ELSE LET r == PhysicsInner(st.ents, [v |-> st.ents[i].velocity, rec |-> st.rec],
                               i, 1, d)
         IN  PhysicsOuterUnguarded([ents |-> [st.ents EXCEPT
                                       ![i].velocity = r.v,
                                       ![i].hitbox = Moved(st.ents[i].hitbox, r.v, d)],
                                    rec  |-> r.rec], i + 1, d)

\* The outer loop of PhysicSystem::update over fst = ents[i..]; st is [ents, rec].
RECURSIVE PhysicsOuter(_, _, _)
PhysicsOuter(st, i, d) ==
    IF i > Len(st.ents) THEN st
    ELSE IF ~hasComponent(st.ents[i], "Hitbox") \/ ~hasComponent(st.ents[i], "Movement")
         THEN PhysicsOuter(st, i + 1, d)
         ELSE LET r == PhysicsInner(st.ents, [v |-> st.ents[i].velocity, rec |-> st.rec],
                                    i, 1, d)
              IN  PhysicsOuter([ents |-> [st.ents EXCEPT
                                    ![i].velocity = r.v,
                                    ![i].hitbox = Moved(st.ents[i].hitbox, r.v, d)],
                                rec  |-> r.rec], i + 1, d)

\* PhysicSystem::update: m_collisions.clear(), then the two loops.
PhysicSystemUpdate(ents, d) == PhysicsOuter([ents |-> ents, rec |-> <<>>], 1, d)

(***************************************************************************)
(* SynchronizeSystem.                                                      *)
(***************************************************************************)
SynchronizeSystemUpdate(ents) ==
    [i \in 1..Len(ents) |->
        IF hasComponent(ents[i], "Hitbox") /\ hasComponent(ents[i], "Sprite")
        THEN [ents[i] EXCEPT !.spritePos = Vec(ents[i].hitbox.left, ents[i].hitbox.top)]
        ELSE ents[i]]

(***************************************************************************)
(* CollisionEffectsSystem.                                                 *)
(***************************************************************************)
NoEvent == [type |-> "None", color |-> "Red", center |-> Vec(0, 0), entity |-> 0]

PlayerHitEvent == [NoEvent EXCEPT !.type = "PlayerHit"]

ColoredBallShotEvent(color, center) ==
    [NoEvent EXCEPT !.type = "ColoredBallShot", !.color = color, !.center = center]

EntityDeathEvent(id) == [NoEvent EXCEPT !.type = "EntityDeath", !.entity = id]

\* The colour band of a ball, from the left of its texture rectangle (pixels).
BallColor(texLeft) ==
    IF texLeft < 64 THEN "Red"
    ELSE IF texLeft < 64 * 2 THEN "Blue"
    ELSE IF texLeft < 64 * 3 THEN "Green"
    ELSE "Yellow"

\* The centre of sprite.getGlobalBounds()
SpriteCenter(e) ==
    Vec(e.spritePos.x + e.texSize \div 2, e.spritePos.y + e.texSize \div 2)

\* A reaction that zeroes the lifepoints of the ball and leaves it unmarked
SakuraBallEffectUnmarked(st, a, b) ==
    [ents  |-> [st.ents EXCEPT ![b].lifepoints = 0, ![a].lifepoints = 0,
                               ![a].toDelete = TRUE],
     queue |-> Append(st.queue, ColoredBallShotEvent(BallColor(st.ents[b].texLeft),
                                                     SpriteCenter(st.ents[b])))]

\* The reaction to a (Sakura, Ball) pair; a and b are the positions of the
\* sakura and of the ball in st.ents, st is [ents, queue].
SakuraBallEffectEager(st, a, b) ==
    [ents  |-> EraseAt([st.ents EXCEPT ![b].lifepoints = 0, ![a].lifepoints = 0,
                                       ![a].toDelete = TRUE, ![b].toDelete = TRUE], a),
     queue |-> Append(st.queue, ColoredBallShotEvent(BallColor(st.ents[b].texLeft),
                                                     SpriteCenter(st.ents[b])))]
SakuraBallEffect(st, a, b) ==
    [ents  |-> [st.ents EXCEPT ![b].lifepoints = 0, ![a].lifepoints = 0,
                               ![a].toDelete = TRUE, ![b].toDelete = TRUE],
     queue |-> Append(st.queue, ColoredBallShotEvent(BallColor(st.ents[b].texLeft),
                                                     SpriteCenter(st.ents[b])))]

\* A reaction to a wall that zeroes the lifepoints of the ball, leaves it
\* unmarked and reports its death at once
BallBoxEffectReported(st, a) ==
    [ents  |-> [st.ents EXCEPT ![a].lifepoints = 0],
     queue |-> Append(st.queue, EntityDeathEvent(st.ents[a].id))]

\* The reaction to a (Ball, Box) or (Box, Ball) pair; a is the position of the ball.
BallBoxEffect(st, a) ==
    [st EXCEPT !.ents[a].lifepoints = 0, !.ents[a].toDelete = TRUE]

\* The reaction to a (Ball, Player) or (Player, Ball) pair; a and b are the
\* positions of the ball and of the player.
BallPlayerEffectNoHit(st, a, b) ==
    [ents  |-> [st.ents EXCEPT ![a].lifepoints = 0, ![a].toDelete = TRUE],
     queue |-> Append(st.queue, PlayerHitEvent)]
BallPlayerEffectMarksPlayer(st, a, b) ==
    [ents  |-> [st.ents EXCEPT ![a].lifepoints = 0, ![a].toDelete = TRUE,
                               ![b].lifepoints = st.ents[b].lifepoints - 1,
                               ![b].toDelete = TRUE],
     queue |-> Append(st.queue, PlayerHitEvent)]
BallPlayerEffect(st, a, b) ==
    [ents  |-> [st.ents EXCEPT ![a].lifepoints = 0, ![a].toDelete = TRUE,
                               ![b].lifepoints = st.ents[b].lifepoints - 1],
     queue |-> Append(st.queue, PlayerHitEvent)]

\* A dispatch in which a sakura that reaches a wall dies as a ball does
CollisionEffectSakuraBox(st, first, second) ==
    LET a  == IndexOf(st.ents, first)
        b  == IndexOf(st.ents, second)
        na == st.ents[a].name
        nb == st.ents[b].name
    IN  IF na = "Sakura" /\ nb = "Ball" THEN SakuraBallEffect(st, a, b)
        ELSE IF na = "Ball" /\ nb = "Box" THEN BallBoxEffect(st, a)
        ELSE IF na = "Box" /\ nb = "Ball" THEN BallBoxEffect(st, b)
        ELSE IF na = "Ball" /\ nb = "Player" THEN BallPlayerEffect(st, a, b)
        ELSE IF na = "Player" /\ nb = "Ball" THEN BallPlayerEffect(st, b, a)
        ELSE IF na = "Sakura" /\ nb = "Box" THEN BallBoxEffect(st, a)
        ELSE st

\* One iteration of the loop of CollisionEffectsSystem::update on the pair
\* (first, second) of entity identities; st is [ents, queue].
CollisionEffect(st, first, second) ==
    LET a  == IndexOf(st.ents, first)
        b  == IndexOf(st.ents, second)
        na == st.ents[a].name
        nb == st.ents[b].name
    IN  IF na = "Sakura" /\ nb = "Ball" THEN SakuraBallEffect(st, a, b)
        ELSE IF na = "Ball" /\ nb = "Box" THEN BallBoxEffect(st, a)
        ELSE IF na = "Box" /\ nb = "Ball" THEN BallBoxEffect(st, b)
        ELSE IF na = "Ball" /\ nb = "Player" THEN BallPlayerEffect(st, a, b)
        ELSE IF na = "Player" /\ nb = "Ball" THEN BallPlayerEffect(st, b, a)
        ELSE st

\* The components CollisionEffectsSystem::update dereferences without a test
\* when it handles a pair of entities with the given names, as <<which entity
\* of the pair, component name>>
Dereferenced(n1, n2) ==
    IF n1 = "Sakura" /\ n2 = "Ball"
    THEN {<<2, "Life">>, <<1, "Life">>, <<1, "DeletionMarker">>, <<2, "DeletionMarker">>,
          <<2, "Sprite">>}
    ELSE IF n1 = "Ball" /\ n2 = "Box" THEN {<<1, "Life">>, <<1, "DeletionMarker">>}
    ELSE IF n1 = "Box" /\ n2 = "Ball" THEN {<<2, "Life">>, <<2, "DeletionMarker">>}
    ELSE IF n1 = "Ball" /\ n2 = "Player"
    THEN {<<1, "Life">>, <<1, "DeletionMarker">>, <<2, "Life">>}
    ELSE IF n1 = "Player" /\ n2 = "Ball"
    THEN {<<2, "Life">>, <<2, "DeletionMarker">>, <<1, "Life">>}
    ELSE {}

\* Handling the pair (first, second) dereferences the null pointer getComponent
\* returns for a component the entity does not have
PairFaults(ents, first, second) ==
    LET pair == <<ents[IndexOf(ents, first)], ents[IndexOf(ents, second)]>>
    IN  \E d \in Dereferenced(pair[1].name, pair[2].name) : ~hasComponent(pair[d[1]], d[2])

(***************************************************************************)
(* LifeSystem.                                                             *)
(***************************************************************************)
\* LifeSystem::update from entity i on; st is [ents, queue].
RECURSIVE LifeLoopStrict(_, _)
LifeLoopStrict(st, i) ==
    IF i > Len(st.ents) THEN st
    ELSE IF hasComponent(st.ents[i], "Life") /\ st.ents[i].lifepoints < 0
         THEN LifeLoopStrict([ents  |-> [st.ents EXCEPT ![i].alive = FALSE],
                              queue |-> Append(st.queue, EntityDeathEvent(st.ents[i].id))],
                             i + 1)
         ELSE LifeLoopStrict(st, i + 1)
\* A life pass that puts its events at the head of the queue
RECURSIVE LifeLoopFront(_, _)
LifeLoopFront(st, i) ==
    IF i > Len(st.ents) THEN st
    ELSE IF hasComponent(st.ents[i], "Life") /\ st.ents[i].lifepoints <= 0
         THEN LifeLoopFront([ents  |-> [st.ents EXCEPT ![i].alive = FALSE],
                             queue |-> <<EntityDeathEvent(st.ents[i].id)>> \o st.queue],
                            i + 1)
         ELSE LifeLoopFront(st, i + 1)

RECURSIVE LifeLoop(_, _)
LifeLoop(st, i) ==
    IF i > Len(st.ents) THEN st
    ELSE IF hasComponent(st.ents[i], "Life") /\ st.ents[i].lifepoints <= 0
         THEN LifeLoop([ents  |-> [st.ents EXCEPT ![i].alive = FALSE],
                        queue |-> Append(st.queue, EntityDeathEvent(st.ents[i].id))], i + 1)
         ELSE LifeLoop(st, i + 1)

\* A life pass that looks only at the entities not marked for deletion
LifeSystemUpdateUnmarked(ents, queue) ==
    LET st == LifeLoop([ents  |-> [i \in 1..Len(ents) |->
                                     IF ents[i].toDelete
                                     THEN [ents[i] EXCEPT !.lifepoints = 1] ELSE ents[i]],
                        queue |-> queue], 1)
    IN  [st EXCEPT !.ents = [i \in 1..Len(ents) |->
                               IF ents[i].toDelete THEN ents[i] ELSE st.ents[i]]]

LifeSystemUpdate(ents, queue) == LifeLoop([ents |-> ents, queue |-> queue], 1)

(***************************************************************************)
(* ParticleWatcherSystem.                                                  *)
(***************************************************************************)
\* The value static_cast<sf::Uint8> is applied to: the remaining lifetime (in
\* ms here, microseconds in sf::Time) as float seconds, times 255
AlphaValue(lifetime) == FMul(Seconds(lifetime * 1000), FromInt(255))

\* static_cast<sf::Uint8>(x).  The conversion truncates; when the truncated
\* value is not in 0..255 the behaviour is undefined: builds either keep the
\* low byte of the 32-bit integer conversion (cvttss2si) or, for a negative
\* value, the low byte of a saturating unsigned conversion (fcvtzu), which is 0.
CastUint8(x) ==
    LET t == FTrunc(x)
    IN  IF t \in 0..255 THEN {t}
        ELSE IF t < 0 THEN {t % 256, 0}
        ELSE {t % 256}

\* The pools the per-particle loop can leave, from the k-th particle on
RECURSIVE ParticleLoop(_, _, _)
ParticleLoop(pool, k, d) ==
    IF k > Len(pool) THEN {pool}
    ELSE UNION { ParticleLoop(p1, k + 1, d)
                 : p1 \in { [pool EXCEPT ![k].lifetime = pool[k].lifetime - d, ![k].alpha = a]
                            : a \in CastUint8(AlphaValue(pool[k].lifetime - d)) } }

\* A loop body that lets an emitter live through the update in which its
\* lifetime reaches the cap exactly
WatchEntityLate(e, d) ==
    IF ~hasComponent(e, "Particle") THEN {e}
    ELSE IF e.plifetime + d > EMITTER_LIFETIME
    THEN {[e EXCEPT !.plifetime = e.plifetime + d, !.toDelete = TRUE]}
    ELSE {[e EXCEPT !.plifetime = e.plifetime + d, !.particles = pool]
          : pool \in ParticleLoop(e.particles, 1, d)}

\* The loop body of ParticleWatcherSystem::update for one entity: the set of
\* the entities it can leave
WatchEntity(e, d) ==
    IF ~hasComponent(e, "Particle") THEN {e}
    ELSE IF e.plifetime + d >= EMITTER_LIFETIME
    THEN {[e EXCEPT !.plifetime = e.plifetime + d, !.toDelete = TRUE]}
    ELSE {[e EXCEPT !.plifetime = e.plifetime + d, !.particles = pool]
          : pool \in ParticleLoop(e.particles, 1, d)}

RECURSIVE WatchLoop(_, _, _)
WatchLoop(ents, i, d) ==
    IF i > Len(ents) THEN {ents}
    ELSE UNION { WatchLoop(e1, i + 1, d)
                 : e1 \in {[ents EXCEPT ![i] = e] : e \in WatchEntity(ents[i], d)} }

\* ParticleWatcherSystem::update: the set of the entity lists it can leave
ParticleWatcherSystemUpdate(ents, d) == WatchLoop(ents, 1, d)

(***************************************************************************)
(* World::cleanEntities.                                                   *)
(***************************************************************************)
\* Position of the first occurrence of c in the registry (0 when absent): std::find
FindComponent(reg, c) ==
    IF \E k \in 1..Len(reg) : reg[k] = c
    THEN CHOOSE k \in 1..Len(reg) : reg[k] = c /\ \A m \in 1..(k - 1) : reg[m] # c
    ELSE 0

\* The loop over the components of one entity: find each in the registry and
\* erase it there when found.
RECURSIVE RemoveComponents(_, _)
RemoveComponents(reg, cs) ==
    IF cs = {} THEN reg
    ELSE LET c == CHOOSE x \in cs : TRUE
             k == FindComponent(reg, c)
         IN  RemoveComponents(IF k # 0 THEN EraseAt(reg, k) ELSE reg, cs \ {c})

\* The loop of cleanEntities with the iterator at index i; st is [ents, comps].
\* After m_entities.erase(itr_e) the iterator is used unchanged: it designates
\* the same slot, which now holds the element that followed the erased one.
RECURSIVE CleanLoopSkip(_, _)
CleanLoopSkip(st, i) ==
    IF i > Len(st.ents) THEN st
    ELSE IF st.ents[i].toDelete
         THEN CleanLoopSkip([ents  |-> EraseAt(st.ents, i),
                             comps |-> RemoveComponents(st.comps,
                                                        getAllComponents(st.ents[i]))], i + 1)
         ELSE CleanLoopSkip(st, i + 1)
RECURSIVE CleanLoop(_, _)
CleanLoop(st, i) ==
    IF i > Len(st.ents) THEN st
    ELSE IF st.ents[i].toDelete
         THEN CleanLoop([ents  |-> EraseAt(st.ents, i),
                         comps |-> RemoveComponents(st.comps, getAllComponents(st.ents[i]))], i)
         ELSE CleanLoop(st, i + 1)

\* A sweep that erases the entities and leaves the registry as it is
cleanEntitiesKeepComponents(ents, comps) ==
    [CleanLoop([ents |-> ents, comps |-> comps], 1) EXCEPT !.comps = comps]

cleanEntities(ents, comps) == CleanLoop([ents |-> ents, comps |-> comps], 1)

(***************************************************************************)
(* The event drain of World::update.                                       *)
(***************************************************************************)
\* kantan::pollEvent on a queue that is not empty: the event it hands out
\* and the queue it leaves
pollEvent(queue) == [event |-> Head(queue), queue |-> Tail(queue)]

\* The next colour of the affinity cycle.
NextAffinity(c) ==
    IF c = "Yellow" THEN "Red"
    ELSE IF c = "Red" THEN "Blue"
    ELSE IF c = "Blue" THEN "Green"
    ELSE IF c = "Green" THEN "Yellow"
    ELSE c

\* case EventType::ColoredBallShot, score and combo part; g is
\* [combo, score, sugoi, sounds] with sugoi the value of m_lastSugoiDisplay.
\* The colour of the ball is the affinity:
MatchingShotInclusive(g, d) ==
    LET combo == g.combo + 1
        fire  == combo >= COMBO_MIN(d) /\ combo % SUGOI_COMBO(d) = 0
    IN  [combo  |-> combo,
         score  |-> IF combo >= COMBO_MIN(d) THEN g.score + combo ELSE g.score + 1,
         sugoi  |-> IF fire THEN 0 ELSE g.sugoi,
         sounds |-> IF fire THEN {"hitGoodBall", "sugoi"} ELSE {"hitGoodBall"}]
MatchingShot(g, d) ==
    LET combo == g.combo + 1
        fire  == combo > COMBO_MIN(d) /\ combo % SUGOI_COMBO(d) = 0
    IN  [combo  |-> combo,
         score  |-> IF combo > COMBO_MIN(d) THEN g.score + combo ELSE g.score + 1,
         sugoi  |-> IF fire THEN 0 ELSE g.sugoi,
         sounds |-> IF fire THEN {"hitGoodBall", "sugoi"} ELSE {"hitGoodBall"}]

\* The colour of the ball is not the affinity:
MismatchedShotFloor(g) ==
    [combo |-> 0, score |-> Max2(0, g.score - 1), sugoi |-> g.sugoi,
     sounds |-> {"hitWrongBall"}]
MismatchedShot(g) ==
    [combo |-> 0, score |-> g.score - 1, sugoi |-> g.sugoi, sounds |-> {"hitWrongBall"}]

ScoreBallShot(g, color, affinity, d) ==
    IF color = affinity THEN MatchingShot(g, d) ELSE MismatchedShot(g)

\* case EventType::PlayerHit: the test that ends the game
IsPlayerDeadStrict(player) == player.lifepoints < 0
IsPlayerDead(player) == player.lifepoints <= 0

(***************************************************************************)
(* The main loop of main() and the steps of World::update.                 *)
(***************************************************************************)
Keys == {"Q", "D", "none"}

\* randomColor of createBall, 64 * (rand() % 4): the columns the model draws
BallColumns == {0}

\* World::init on an empty world: addPlayer then buildWalls
InitialWorld(d) == buildWalls(addPlayer(WorldOf(<<>>, <<>>, 0, 1), d))

\* The state of a World right after its construction and init(), around the
\* given entity list and registry.
WorldInit(d, w) ==
    /\ difficulty = d
    /\ tick = 0
    /\ windowOpen = TRUE
    /\ m_entities = w.ents
    /\ m_components = w.comps
    /\ lastid = w.lastid
    /\ nextComp = w.nextComp
    /\ m_player = 1
    /\ physCollisions = <<>>
    /\ ci = 1
    /\ m_isRunning = TRUE
    /\ m_lastSugoiDisplay = SUGOI_DISPLAY_INIT
    /\ m_lastAffinityChange = 0
    /\ m_lastSakuraShoot = 0
    /\ m_lastBallSpawn = 0
    /\ sounds = {}
    /\ deletedEntities = <<>>
    /\ deletedComponents = <<>>
    /\ deathLog = <<>>
    /\ zeroTick = [n \in {} |-> 0]
    /\ physPre = <<>>
    /\ handled = NoEvent
    /\ ret = NoCall

Init ==
    /\ \E d \in Difficulties : WorldInit(d, InitialWorld(d))
    /\ pc = "idle"
    /\ dt = 0
    /\ m_collisions = <<>>
    /\ m_eventQueue = <<>>
    /\ m_colorAffinity = "Red"
    /\ m_score = 0
    /\ m_combo = 0

\* sf::seconds(0.5f), in microseconds
HalfSecond == FTrunc(FMul(FDiv(FromInt(1), FromInt(2)), FromInt(1000000)))

\* A step that is passed on as it comes
ClampMicrosNone(us) == us

\* if(dt.asSeconds() > 0.5f) dt = sf::seconds(0.5f); on a time of us microseconds
ClampMicros(us) ==
    IF FLess(FDiv(FromInt(1), FromInt(2)), Seconds(us)) THEN HalfSecond ELSE us

\* World::update from the clamp of dt to the spawn of the ball, called with
\* a time of d milliseconds.
Begin(d) ==
    /\ \E space \in BOOLEAN, key \in Keys, x \in BallXs, col \in BallColumns :
        \E step \in {ClampMicros(d * 1000) \div 1000} :
          LET p      == IndexOf(m_entities, m_player)
              hb     == m_entities[p].hitbox
              shoot  == space /\ m_lastSakuraShoot + step > SHOOT_INTERVAL(difficulty)
              spawn  == m_lastBallSpawn + step > BALLS_INTERVAL(difficulty)
              w0     == WorldOf([m_entities EXCEPT ![p].velocity = Vec(0, 0)],
                                m_components, lastid, nextComp)
              pos    == Vec(hb.left + hb.width \div 2 - Px(SAKURA_SIZE) \div 2,
                            hb.top - hb.height \div 2 - Px(SAKURA_SIZE) \div 2)
              w1     == IF shoot THEN shootSakura(w0, difficulty, pos) ELSE w0
              vx     == IF key = "Q" THEN -PLAYER_SPEED(difficulty)
                        ELSE IF key = "D" THEN PLAYER_SPEED(difficulty) ELSE 0
              w2     == [w1 EXCEPT !.ents[p].velocity.x = vx]
              w3     == IF spawn THEN createBall(w2, difficulty, x, col) ELSE w2
          IN  /\ dt' = step
              /\ m_lastSakuraShoot' = IF shoot THEN 0 ELSE m_lastSakuraShoot + step
              /\ m_lastBallSpawn' = IF spawn THEN 0 ELSE m_lastBallSpawn + step
              /\ m_lastSugoiDisplay' = m_lastSugoiDisplay + step
              /\ m_lastAffinityChange' = m_lastAffinityChange + step
              /\ m_entities' = w3.ents
              /\ m_components' = w3.comps
              /\ lastid' = w3.lastid
              /\ nextComp' = w3.nextComp
    /\ pc' = "physics"
    /\ sounds' = {}
    /\ UNCHANGED <<difficulty, tick, windowOpen, m_player, physCollisions, m_collisions,
                   ci, m_eventQueue, m_isRunning, m_colorAffinity, m_score, m_combo,
                   deletedEntities, deletedComponents, deathLog, zeroTick, physPre, handled,
                   ret>>

\* One iteration of the main loop up to the systems: the window events, then
\* World::update with the frame time of the game clock.
UpdateBegin ==
    /\ pc = "idle" /\ windowOpen /\ m_isRunning /\ tick < MaxTicks
    /\ \E d \in DtSet : Begin(d)

\* m_physics.update, m_synchronize.update, m_collider.setCollisionRecord
Physics ==
    /\ pc = "physics"
    /\ LET r == PhysicSystemUpdate(m_entities, dt)
       IN  /\ m_entities' = SynchronizeSystemUpdate(r.ents)
           /\ physCollisions' = r.rec
           /\ m_collisions' = r.rec
    /\ ci' = 1
    /\ pc' = "collider"
    /\ UNCHANGED <<difficulty, tick, windowOpen, dt, m_components, lastid, nextComp,
                   m_player, m_eventQueue, m_isRunning, m_colorAffinity, m_score,
                   m_combo, m_lastSugoiDisplay, m_lastAffinityChange, m_lastSakuraShoot,
                   m_lastBallSpawn, sounds, deletedEntities, deletedComponents,
                   deathLog, zeroTick, physPre, handled, ret>>

\* Entities of ents with a Life component whose lifepoints are <= 0.
ZeroLife(ents) ==
    {ents[i].id : i \in {k \in 1..Len(ents) :
                            hasComponent(ents[k], "Life") /\ ents[k].lifepoints <= 0}}

\* m_collider.update: one iteration of its loop over the collision record
ColliderStep ==
    /\ pc = "collider" /\ ci <= Len(m_collisions)
    /\ ~PairFaults(m_entities, m_collisions[ci][1], m_collisions[ci][2])
    /\ LET r == CollisionEffect([ents |-> m_entities, queue |-> m_eventQueue],
                                m_collisions[ci][1], m_collisions[ci][2])
       IN  /\ m_entities' = r.ents
           /\ m_eventQueue' = r.queue
           /\ zeroTick' = [id \in (DOMAIN zeroTick) \cup ZeroLife(r.ents) |->
                              IF id \in DOMAIN zeroTick THEN zeroTick[id] ELSE tick]
    /\ ci' = ci + 1
    /\ UNCHANGED <<difficulty, pc, tick, windowOpen, dt, m_components, lastid, nextComp,
                   m_player, physCollisions, m_collisions, m_isRunning, m_colorAffinity,
                   m_score, m_combo, m_lastSugoiDisplay, m_lastAffinityChange,
                   m_lastSakuraShoot, m_lastBallSpawn, sounds, deletedEntities,
                   deletedComponents, deathLog, physPre, handled, ret>>

\* m_collider.update: the end of the loop, m_collisions.clear()
ColliderEnd ==
    /\ pc = "collider" /\ ci > Len(m_collisions)
    /\ m_collisions' = <<>>
    /\ pc' = "life"
    /\ UNCHANGED <<difficulty, tick, windowOpen, dt, m_entities, m_components, lastid,
                   nextComp, m_player, physCollisions, ci, m_eventQueue, m_isRunning,
                   m_colorAffinity, m_score, m_combo, m_lastSugoiDisplay,
                   m_lastAffinityChange, m_lastSakuraShoot, m_lastBallSpawn, sounds,
                   deletedEntities, deletedComponents, deathLog, zeroTick, physPre, handled,
                   ret>>

\* m_lifes.update
Life ==
    /\ pc = "life"
    /\ LET r   == LifeSystemUpdate(m_entities, m_eventQueue)
           new == SubSeq(r.queue, Len(m_eventQueue) + 1, Len(r.queue))
       IN  /\ m_entities' = r.ents
           /\ m_eventQueue' = r.queue
           /\ deathLog' = deathLog \o [k \in 1..Len(new) |-> <<tick, new[k].entity>>]
    /\ pc' = "drain"
    /\ UNCHANGED <<difficulty, tick, windowOpen, dt, m_components, lastid, nextComp,
                   m_player, physCollisions, m_collisions, ci, m_isRunning,
                   m_colorAffinity, m_score, m_combo, m_lastSugoiDisplay,
                   m_lastAffinityChange, m_lastSakuraShoot, m_lastBallSpawn, sounds,
                   deletedEntities, deletedComponents, zeroTick, physPre, handled, ret>>

\* A drain whose PlayerHit case plays the sound and leaves the combo
DrainStepKeepsCombo ==
    /\ pc = "drain" /\ m_eventQueue # <<>>
    /\ LET ev == pollEvent(m_eventQueue).event
           w0 == WorldOf(m_entities, m_components, lastid, nextComp)
           w1 == IF ev.type = "ColoredBallShot"
                 THEN createExplosion(w0, ev.color, ev.center) ELSE w0
           g0 == [combo |-> m_combo, score |-> m_score, sugoi |-> m_lastSugoiDisplay,
                  sounds |-> {}]
           g1 == IF ev.type = "PlayerHit"
                 THEN [g0 EXCEPT !.sounds = {"hit"}]
                 ELSE IF ev.type = "ColoredBallShot"
                 THEN ScoreBallShot(g0, ev.color, m_colorAffinity, difficulty)
                 ELSE g0
           dead == ev.type = "PlayerHit"
                   /\ IsPlayerDead(m_entities[IndexOf(m_entities, m_player)])
       IN  /\ m_entities' = w1.ents
           /\ m_components' = w1.comps
           /\ lastid' = w1.lastid
           /\ nextComp' = w1.nextComp
           /\ m_combo' = g1.combo
           /\ m_score' = g1.score
           /\ m_lastSugoiDisplay' = g1.sugoi
           /\ sounds' = IF dead THEN {} ELSE g1.sounds
           /\ m_isRunning' = IF dead THEN FALSE ELSE m_isRunning
           /\ handled' = ev
    /\ m_eventQueue' = pollEvent(m_eventQueue).queue
    /\ UNCHANGED <<difficulty, pc, tick, windowOpen, dt, m_player, physCollisions,
                   m_collisions, ci, m_colorAffinity, m_lastAffinityChange,
                   m_lastSakuraShoot, m_lastBallSpawn, deletedEntities,
                   deletedComponents, deathLog, zeroTick, physPre, ret>>

\* One iteration of while(kantan::pollEvent(event, m_eventQueue))
DrainStep ==
    /\ pc = "drain" /\ m_eventQueue # <<>>
    /\ LET ev == pollEvent(m_eventQueue).event
           w0 == WorldOf(m_entities, m_components, lastid, nextComp)
           w1 == IF ev.type = "ColoredBallShot"
                 THEN createExplosion(w0, ev.color, ev.center) ELSE w0
           g0 == [combo |-> m_combo, score |-> m_score, sugoi |-> m_lastSugoiDisplay,
                  sounds |-> {}]
           g1 == IF ev.type = "PlayerHit"
                 THEN [g0 EXCEPT !.combo = 0, !.sounds = {"hit"}]
                 ELSE IF ev.type = "ColoredBallShot"
                 THEN ScoreBallShot(g0, ev.color, m_colorAffinity, difficulty)
                 ELSE g0
           dead == ev.type = "PlayerHit"
                   /\ IsPlayerDead(m_entities[IndexOf(m_entities, m_player)])
       IN  /\ m_entities' = w1.ents
           /\ m_components' = w1.comps
           /\ lastid' = w1.lastid
           /\ nextComp' = w1.nextComp
           /\ m_combo' = g1.combo
           /\ m_score' = g1.score
           /\ m_lastSugoiDisplay' = g1.sugoi
           /\ sounds' = IF dead THEN {} ELSE g1.sounds
           /\ m_isRunning' = IF dead THEN FALSE ELSE m_isRunning
           /\ handled' = ev
    /\ m_eventQueue' = pollEvent(m_eventQueue).queue
    /\ UNCHANGED <<difficulty, pc, tick, windowOpen, dt, m_player, physCollisions,
                   m_collisions, ci, m_colorAffinity, m_lastAffinityChange,
                   m_lastSakuraShoot, m_lastBallSpawn, deletedEntities,
                   deletedComponents, deathLog, zeroTick, physPre, ret>>

\* An affinity check that does not wait for the queue to be empty
AffinityEarly ==
    /\ pc = "drain"
    /\ LET change == m_lastAffinityChange > AFFINITY_CHANGE_INTERVAL(difficulty)
       IN  /\ m_colorAffinity' = IF change THEN NextAffinity(m_colorAffinity)
                                 ELSE m_colorAffinity
           /\ m_lastAffinityChange' = IF change THEN 0 ELSE m_lastAffinityChange
           /\ sounds' = IF change THEN {"changeAffinity"} ELSE sounds
    /\ pc' = IF m_eventQueue = <<>> THEN "particles" ELSE "drain"
    /\ UNCHANGED <<difficulty, tick, windowOpen, dt, m_entities, m_components, lastid,
                   nextComp, m_player, physCollisions, m_collisions, ci, m_eventQueue,
                   m_isRunning, m_score, m_combo, m_lastSugoiDisplay, m_lastSakuraShoot,
                   m_lastBallSpawn, deletedEntities, deletedComponents, deathLog,
                   zeroTick, physPre, handled, ret>>

\* The queue is empty: the affinity check that follows the drain
Affinity ==
    /\ pc = "drain" /\ m_eventQueue = <<>>
    /\ LET change == m_lastAffinityChange > AFFINITY_CHANGE_INTERVAL(difficulty)
       IN  /\ m_colorAffinity' = IF change THEN NextAffinity(m_colorAffinity)
                                 ELSE m_colorAffinity
           /\ m_lastAffinityChange' = IF change THEN 0 ELSE m_lastAffinityChange
           /\ sounds' = IF change THEN {"changeAffinity"} ELSE sounds
    /\ pc' = "particles"
    /\ UNCHANGED <<difficulty, tick, windowOpen, dt, m_entities, m_components, lastid,
                   nextComp, m_player, physCollisions, m_collisions, ci, m_eventQueue,
                   m_isRunning, m_score, m_combo, m_lastSugoiDisplay, m_lastSakuraShoot,
                   m_lastBallSpawn, deletedEntities, deletedComponents, deathLog,
                   zeroTick, physPre, handled, ret>>

\* m_particleWatcher.update
Particles ==
    /\ pc = "particles"
    /\ m_entities' \in ParticleWatcherSystemUpdate(m_entities, dt)
    /\ pc' = "clean"
    /\ UNCHANGED <<difficulty, tick, windowOpen, dt, m_components, lastid, nextComp,
                   m_player, physCollisions, m_collisions, ci, m_eventQueue, m_isRunning,
                   m_colorAffinity, m_score, m_combo, m_lastSugoiDisplay,
                   m_lastAffinityChange, m_lastSakuraShoot, m_lastBallSpawn, sounds,
                   deletedEntities, deletedComponents, deathLog, zeroTick, physPre, handled,
                   ret>>

\* cleanEntities(), the end of World::update
Clean ==
    /\ pc = "clean"
    /\ \A i \in 1..Len(m_entities) : hasComponent(m_entities[i], "DeletionMarker")
    /\ LET r == cleanEntities(m_entities, m_components)
       IN  /\ m_entities' = r.ents
           /\ m_components' = r.comps
    /\ pc' = "idle"
    /\ tick' = tick + 1
    /\ UNCHANGED <<difficulty, windowOpen, dt, lastid, nextComp, m_player,
                   physCollisions, m_collisions, ci, m_eventQueue, m_isRunning,
                   m_colorAffinity, m_score, m_combo, m_lastSugoiDisplay,
                   m_lastAffinityChange, m_lastSakuraShoot, m_lastBallSpawn, sounds,
                   deletedEntities, deletedComponents, deathLog, zeroTick, physPre, handled,
                   ret>>

\* cleanEntities() uses the iterator that m_entities.erase invalidated: a build
\* with checked iterators stops the program at the first erase
CleanAbort ==
    /\ pc = "clean"
    /\ \E i \in 1..Len(m_entities) : m_entities[i].toDelete
    /\ pc' = "aborted"
    /\ UNCHANGED <<difficulty, tick, windowOpen, dt, m_entities, m_components, lastid,
                   nextComp, m_player, physCollisions, m_collisions, ci, m_eventQueue,
                   m_isRunning, m_colorAffinity, m_score, m_combo, m_lastSugoiDisplay,
                   m_lastAffinityChange, m_lastSakuraShoot, m_lastBallSpawn, sounds,
                   deletedEntities, deletedComponents, deathLog, zeroTick, physPre, handled,
                   ret>>

\* The window is closed: the Closed event is polled at the start of an iteration
\* of the main loop (or in the menu loop before the World exists), the update of
\* that iteration runs without reading the window, and the loop condition reads
\* it afterwards.  The step is taken where the loop condition reads the window.
CloseWindow ==
    /\ pc = "idle" /\ windowOpen /\ m_isRunning
    /\ windowOpen' = FALSE
    /\ UNCHANGED <<difficulty, pc, tick, dt, m_entities, m_components, lastid,
                   nextComp, m_player, physCollisions, m_collisions, ci, m_eventQueue,
                   m_isRunning, m_colorAffinity, m_score, m_combo, m_lastSugoiDisplay,
                   m_lastAffinityChange, m_lastSakuraShoot, m_lastBallSpawn, sounds,
                   deletedEntities, deletedComponents, deathLog, zeroTick, physPre, handled,
                   ret>>

\* The main loop has ended (window closed or game ended) and the World goes out
\* of scope: ~World deletes what m_entities and m_components still hold
Destroy ==
    /\ pc = "idle" /\ (~windowOpen \/ ~m_isRunning)
    /\ deletedEntities' = deletedEntities \o [i \in 1..Len(m_entities) |-> m_entities[i].id]
    /\ deletedComponents' = deletedComponents \o m_components
    /\ pc' = "destroyed"
    /\ UNCHANGED <<difficulty, tick, windowOpen, dt, m_entities, m_components, lastid,
                   nextComp, m_player, physCollisions, m_collisions, ci, m_eventQueue,
                   m_isRunning, m_colorAffinity, m_score, m_combo, m_lastSugoiDisplay,
                   m_lastAffinityChange, m_lastSakuraShoot, m_lastBallSpawn, sounds,
                   deathLog, zeroTick, physPre, handled, ret>>

Next ==
    \/ UpdateBegin
    \/ Physics
    \/ ColliderStep
    \/ ColliderEnd
    \/ Life
    \/ DrainStep
    \/ Affinity
    \/ Particles
    \/ Clean
    \/ CleanAbort
    \/ CloseWindow
    \/ Destroy

Spec == Init /\ [][Next]_vars

(***************************************************************************)
(* The event drain on drawn inputs: a World after init() with any combo,   *)
(* score and affinity, and one ColoredBallShot event of any colour queued. *)
(***************************************************************************)
MaxCombo == 50

ScoreValues == {-2, 0, 30}

InitScore ==
    /\ \E d \in Difficulties : WorldInit(d, InitialWorld(d))
    /\ pc = "drain"
    /\ dt \in {MAX_STEP}
    /\ m_collisions = <<>>
    /\ m_eventQueue \in {<<ColoredBallShotEvent(c, Vec(Px(97), Px(300)))>> : c \in Colors}
    /\ m_colorAffinity \in Colors
    /\ m_score \in ScoreValues
    /\ m_combo \in 0..MaxCombo

NextScore == DrainStep

SpecScore == InitScore /\ [][NextScore]_vars

(***************************************************************************)
(* CollisionEffectsSystem::update on drawn collision records: a World with *)
(* the player, the walls, one sakura and one ball of any colour, and a     *)
(* record of pairs among the player, a box, the sakura and the ball.       *)
(***************************************************************************)
MaxPairs == 2

\* The world of InitCollide: entity 36 is the sakura, entity 37 the ball.
CollideWorld(d, col) ==
    LET w0 == InitialWorld(d)
        w1 == shootSakura(w0, d, Vec(Px(81), Px(340)))
        w2 == createBall(w1, d, 65, col)
        w3 == [w2 EXCEPT !.ents[37].hitbox.top = Px(300)]
    IN  [w3 EXCEPT !.ents = SynchronizeSystemUpdate(w3.ents)]

\* The player, the first box, the sakura and the ball.
CollideIds == {1, 2, 36, 37}

CollidePairs == {p \in CollideIds \X CollideIds : p[1] # p[2]}

CollideRecords ==
    UNION {[1..n -> CollidePairs] : n \in 1..MaxPairs}

InitCollide ==
    /\ \E d \in Difficulties, col \in {0, 64, 128, 192} : WorldInit(d, CollideWorld(d, col))
    /\ pc = "collider"
    /\ dt \in {MAX_STEP}
    /\ m_collisions \in CollideRecords
    /\ m_eventQueue = <<>>
    /\ m_colorAffinity = "Red"
    /\ m_score = 0
    /\ m_combo = 0

NextCollide == ColliderStep \/ ColliderEnd

SpecCollide == InitCollide /\ [][NextCollide]_vars

(***************************************************************************)
(* World::update called with any frame time, on the World of InitCollide:  *)
(* the call binds the parameter dt to the time passed, then the update     *)
(* runs from its clamp to its sweep.                                       *)
(***************************************************************************)
MaxClampTicks == 1

\* Frame times passed to World::update, in milliseconds
ClampDts == {20, 480, 520, 800}

InitClamp ==
    /\ \E d \in Difficulties : WorldInit(d, CollideWorld(d, 0))
    /\ pc = "idle"
    /\ dt = 0
    /\ m_collisions = <<>>
    /\ m_eventQueue = <<>>
    /\ m_colorAffinity = "Red"
    /\ m_score = 0
    /\ m_combo = 0

\* world.update(gameclock.restart()): the parameter dt holds the time passed
CallUpdate ==
    /\ pc = "idle" /\ windowOpen /\ m_isRunning /\ tick < MaxClampTicks
    /\ dt' \in ClampDts
    /\ pc' = "called"
    /\ UNCHANGED <<difficulty, tick, windowOpen, m_entities, m_components, lastid,
                   nextComp, m_player, physCollisions, m_collisions, ci, m_eventQueue,
                   m_isRunning, m_colorAffinity, m_score, m_combo, m_lastSugoiDisplay,
                   m_lastAffinityChange, m_lastSakuraShoot, m_lastBallSpawn, sounds,
                   deletedEntities, deletedComponents, deathLog, zeroTick, physPre, handled,
                   ret>>

\* World::update from the clamp of its parameter to the spawn of the ball
ClampedBegin == pc = "called" /\ Begin(dt)

NextClamp ==
    \/ CallUpdate
    \/ ClampedBegin
    \/ Physics
    \/ ColliderStep
    \/ ColliderEnd
    \/ Life
    \/ DrainStep
    \/ Affinity
    \/ Particles
    \/ Clean

SpecClamp == InitClamp /\ [][NextClamp]_vars

(***************************************************************************)
(* One World::update on a World that has run for a while: the affinity     *)
(* timer stands near AFFINITY_CHANGE_INTERVAL, the affinity is any colour   *)
(* of the cycle, and a sakura is about to reach a ball of any colour.       *)
(***************************************************************************)
\* Frame times passed to the update, in milliseconds
RotationDts == {20, 520}

\* What the affinity timer lacks to stand at AFFINITY_CHANGE_INTERVAL, in
\* milliseconds, before the update
RotationGaps == {0, 20, 500}

InitRotation ==
    /\ \E d \in Difficulties, col \in {0, 64} :
          /\ difficulty = d
          /\ m_entities = CollideWorld(d, col).ents
          /\ m_components = CollideWorld(d, col).comps
          /\ lastid = CollideWorld(d, col).lastid
          /\ nextComp = CollideWorld(d, col).nextComp
          /\ m_lastAffinityChange \in {AFFINITY_CHANGE_INTERVAL(d) - g : g \in RotationGaps}
    /\ tick = 0
    /\ windowOpen = TRUE
    /\ m_player = 1
    /\ physCollisions = <<>>
    /\ ci = 1
    /\ m_isRunning = TRUE
    /\ m_lastSugoiDisplay = SUGOI_DISPLAY_INIT
    /\ m_lastSakuraShoot = 0
    /\ m_lastBallSpawn = 0
    /\ sounds = {}
    /\ deletedEntities = <<>>
    /\ deletedComponents = <<>>
    /\ deathLog = <<>>
    /\ zeroTick = [n \in {} |-> 0]
    /\ physPre = <<>>
    /\ handled = NoEvent
    /\ ret = NoCall
    /\ pc = "idle"
    /\ dt = 0
    /\ m_collisions = <<>>
    /\ m_eventQueue = <<>>
    /\ m_colorAffinity \in Colors
    /\ m_score = 0
    /\ m_combo = 0

\* world.update(gameclock.restart()), once
RotationCall ==
    /\ pc = "idle" /\ windowOpen /\ m_isRunning /\ tick = 0
    /\ dt' \in RotationDts
    /\ pc' = "called"
    /\ UNCHANGED <<difficulty, tick, windowOpen, m_entities, m_components, lastid,
                   nextComp, m_player, physCollisions, m_collisions, ci, m_eventQueue,
                   m_isRunning, m_colorAffinity, m_score, m_combo, m_lastSugoiDisplay,
                   m_lastAffinityChange, m_lastSakuraShoot, m_lastBallSpawn, sounds,
                   deletedEntities, deletedComponents, deathLog, zeroTick, physPre, handled,
                   ret>>

NextRotation ==
    \/ RotationCall
    \/ ClampedBegin
    \/ Physics
    \/ ColliderStep
    \/ ColliderEnd
    \/ Life
    \/ DrainStep
    \/ Affinity
    \/ Particles
    \/ Clean

SpecRotation == InitRotation /\ [][NextRotation]_vars

(***************************************************************************)
(* World::update on a World in play that holds an explosion which has been *)
(* watched for some time.                                                  *)
(***************************************************************************)
MaxExpiryTicks == 2

\* Frame times passed to the update, in milliseconds
ExpiryDts == {20, 520}

\* The lifetime the emitter has accumulated, in milliseconds
ExpiryAges == {1000, 1479, 1480}

\* The World with a sakura about to meet a ball, and an explosion (entity
\* 38) that has been watched for age milliseconds
AgedWorld(age) ==
    LET w == createExplosion(CollideWorld("NORMAL", 0), "Red", Vec(Px(200), Px(100)))
        n == Len(w.ents)
    IN  [w EXCEPT !.ents[n].plifetime = age,
                  !.ents[n].particles =
                      [k \in 1..PoolSize |->
                          [lifetime |-> LONGEST_LIFETIME - age, initial |-> LONGEST_LIFETIME,
                           alpha |-> CHOOSE a \in CastUint8(AlphaValue(LONGEST_LIFETIME - age)) :
                                        TRUE]]]

InitExpiry ==
    /\ \E age \in ExpiryAges : WorldInit("NORMAL", AgedWorld(age))
    /\ pc = "idle"
    /\ dt = 0
    /\ m_collisions = <<>>
    /\ m_eventQueue = <<>>
    /\ m_colorAffinity = "Red"
    /\ m_score = 0
    /\ m_combo = 0

\* world.update(gameclock.restart())
ExpiryCall ==
    /\ pc = "idle" /\ windowOpen /\ m_isRunning /\ tick < MaxExpiryTicks
    /\ dt' \in ExpiryDts
    /\ pc' = "called"
    /\ UNCHANGED <<difficulty, tick, windowOpen, m_entities, m_components, lastid,
                   nextComp, m_player, physCollisions, m_collisions, ci, m_eventQueue,
                   m_isRunning, m_colorAffinity, m_score, m_combo, m_lastSugoiDisplay,
                   m_lastAffinityChange, m_lastSakuraShoot, m_lastBallSpawn, sounds,
                   deletedEntities, deletedComponents, deathLog, zeroTick, physPre, handled,
                   ret>>

NextExpiry ==
    \/ ExpiryCall
    \/ ClampedBegin
    \/ Physics
    \/ ColliderStep
    \/ ColliderEnd
    \/ Life
    \/ DrainStep
    \/ Affinity
    \/ Particles
    \/ Clean

SpecExpiry == InitExpiry /\ [][NextExpiry]_vars

(***************************************************************************)
(* World::update on a World in play in which a ball has come down beside   *)
(* the player, far enough to share rows with the player's hitbox, and a    *)
(* sakura shot 1.94 s ago has met no ball and nears the top of the window. *)
(***************************************************************************)
MaxHitTicks == 2

\* Frame times passed to the update, in milliseconds
HitDts == {20, 200}

\* Tops of the hitbox of the ball, in pixels: -64 plus a whole number of
\* 20 ms steps at 300 px/s
BesideTops == {536, 596}

\* Combo and score the game has reached and the life points the player has
\* left (5 at the start of a NORMAL game)
HitGames == {<<0, 0, 5>>, <<3, 7, 5>>, <<3, 7, 1>>}

\* The World after init(), a ball (entity 36) at column 65 + 136 that has
\* fallen to the given top, and a sakura (entity 37) shot from the player's
\* place, (81, 592), that has flown up for 1.94 s
BesideWorld(top) ==
    LET w0 == createBall(InitialWorld("NORMAL"), "NORMAL", 201, 0)
        w  == shootSakura(w0, "NORMAL", Vec(Px(81), Px(592)))
        n  == Len(w.ents)
    IN  [w EXCEPT !.ents = SynchronizeSystemUpdate(
            [w.ents EXCEPT ![n - 1].hitbox.top = Px(top),
                           ![n].hitbox.top = Px(592) + Displacement(SAKURA_VELOCITY("NORMAL"), 1940)])]

InitHit ==
    /\ \E top \in BesideTops, g \in HitGames :
          /\ WorldInit("NORMAL", [BesideWorld(top) EXCEPT !.ents[1].lifepoints = g[3]])
          /\ m_combo = g[1]
          /\ m_score = g[2]
    /\ pc = "idle"
    /\ dt = 0
    /\ m_collisions = <<>>
    /\ m_eventQueue = <<>>
    /\ m_colorAffinity = "Red"

\* world.update(gameclock.restart())
HitCall ==
    /\ pc = "idle" /\ windowOpen /\ m_isRunning /\ tick < MaxHitTicks
    /\ dt' \in HitDts
    /\ pc' = "called"
    /\ UNCHANGED <<difficulty, tick, windowOpen, m_entities, m_components, lastid,
                   nextComp, m_player, physCollisions, m_collisions, ci, m_eventQueue,
                   m_isRunning, m_colorAffinity, m_score, m_combo, m_lastSugoiDisplay,
                   m_lastAffinityChange, m_lastSakuraShoot, m_lastBallSpawn, sounds,
                   deletedEntities, deletedComponents, deathLog, zeroTick, physPre, handled,
                   ret>>

NextHit ==
    \/ HitCall
    \/ ClampedBegin
    \/ Physics
    \/ ColliderStep
    \/ ColliderEnd
    \/ Life
    \/ DrainStep
    \/ Affinity
    \/ Particles
    \/ Clean

SpecHit == InitHit /\ [][NextHit]_vars

(***************************************************************************)
(* World::update on a World in play in which two sakuras, shot 0.26 s      *)
(* apart, fly towards a ball that comes down above the player.             *)
(***************************************************************************)
MaxVolleyTicks == 2

\* Frame times passed to the update, in milliseconds
VolleyDts == {20, 500}

\* Tops of the hitbox of the ball, in pixels
VolleyTops == {200, 260}

\* The World after init(), a ball (entity 36) at column 65 that has fallen
\* to the given top, and two sakuras (37, 38) shot from the player's place,
\* (81, 592), 0.38 s and 0.12 s ago
VolleyWorld(top) ==
    LET w0 == createBall(InitialWorld("NORMAL"), "NORMAL", 65, 0)
        w1 == shootSakura(w0, "NORMAL", Vec(Px(81), Px(592)))
        w2 == shootSakura(w1, "NORMAL", Vec(Px(81), Px(592)))
        n  == Len(w2.ents)
    IN  [w2 EXCEPT !.ents = SynchronizeSystemUpdate(
            [w2.ents EXCEPT ![n - 2].hitbox.top = Px(top),
                            ![n - 1].hitbox.top = Px(592) + Displacement(SAKURA_VELOCITY("NORMAL"), 380),
                            ![n].hitbox.top = Px(592) + Displacement(SAKURA_VELOCITY("NORMAL"), 120)])]

InitVolley ==
    /\ \E top \in VolleyTops : WorldInit("NORMAL", VolleyWorld(top))
    /\ pc = "idle"
    /\ dt = 0
    /\ m_collisions = <<>>
    /\ m_eventQueue = <<>>
    /\ m_colorAffinity \in {"Red", "Blue"}
    /\ m_score = 0
    /\ m_combo = 0

\* world.update(gameclock.restart())
VolleyCall ==
    /\ pc = "idle" /\ windowOpen /\ m_isRunning /\ tick < MaxVolleyTicks
    /\ dt' \in VolleyDts
    /\ pc' = "called"
    /\ UNCHANGED <<difficulty, tick, windowOpen, m_entities, m_components, lastid,
                   nextComp, m_player, physCollisions, m_collisions, ci, m_eventQueue,
                   m_isRunning, m_colorAffinity, m_score, m_combo, m_lastSugoiDisplay,
                   m_lastAffinityChange, m_lastSakuraShoot, m_lastBallSpawn, sounds,
                   deletedEntities, deletedComponents, deathLog, zeroTick, physPre, handled,
                   ret>>

NextVolley ==
    \/ VolleyCall
    \/ ClampedBegin
    \/ Physics
    \/ ColliderStep
    \/ ColliderEnd
    \/ Life
    \/ DrainStep
    \/ Affinity
    \/ Particles
    \/ Clean

SpecVolley == InitVolley /\ [][NextVolley]_vars

(***************************************************************************)
(* CollisionEffectsSystem::update on records of one or two pairs among the *)
(* player, two boxes, two sakuras and two balls.                           *)
(***************************************************************************)
\* The world of InitCollide with a second sakura (38) and a second ball (39)
PairWorld(d, col) ==
    LET w0 == CollideWorld(d, col)
        w1 == shootSakura(w0, d, Vec(Px(81), Px(200)))
        w2 == createBall(w1, d, 65, col)
    IN  [w2 EXCEPT !.ents = SynchronizeSystemUpdate(w2.ents)]

PairIds == {1, 2, 3, 36, 37, 38, 39}

PairPairs == {p \in PairIds \X PairIds : p[1] # p[2]}

PairRecords == {<<p>> : p \in PairPairs} \cup {<<p, q>> : p \in PairPairs, q \in PairPairs}

InitPairs ==
    /\ \E col \in {0, 64} : WorldInit("NORMAL", PairWorld("NORMAL", col))
    /\ pc = "collider"
    /\ dt \in {MAX_STEP}
    /\ m_collisions \in PairRecords
    /\ m_eventQueue = <<>>
    /\ m_colorAffinity = "Red"
    /\ m_score = 0
    /\ m_combo = 0

NextPairs == ColliderStep \/ ColliderEnd

SpecPairs == InitPairs /\ [][NextPairs]_vars

(***************************************************************************)
(* PhysicSystem::update on drawn scenes: a mover A (Hitbox and Movement)   *)
(* and an obstacle B (Hitbox), both squares of side PhysSize.              *)
(***************************************************************************)
MaxCoord == 7

PhysSize == 2

PhysVelocities == {-8, -4, 0, 4, 8}

PhysDts == {250, 500}

\* The obstacle B of the scenes.
PhysObstacle == Rect(4, 4, PhysSize, PhysSize)

PhysScene(ax, ay, vx, vy, ablk, bblk) ==
    LET a0 == addComponent(addComponent(addComponent(NewEntity(1, "A"),
                  "DeletionMarker", 1), "Hitbox", 2), "Movement", 3)
        b0 == addComponent(addComponent(NewEntity(2, "B"), "DeletionMarker", 4), "Hitbox", 5)
    IN  WorldOf(<<[a0 EXCEPT !.hitbox = Rect(ax, ay, PhysSize, PhysSize),
                             !.velocity = Vec(vx, vy), !.isBlocking = ablk],
                  [b0 EXCEPT !.hitbox = PhysObstacle, !.isBlocking = bblk]>>,
                <<1, 2, 3, 4, 5>>, 2, 6)

InitPhys ==
    /\ \E ax \in 0..MaxCoord, ay \in 0..MaxCoord, vx \in PhysVelocities, vy \in PhysVelocities,
          ablk \in BOOLEAN, bblk \in BOOLEAN :
          WorldInit("NORMAL", PhysScene(ax, ay, vx, vy, ablk, bblk))
    /\ pc = "physics"
    /\ dt \in PhysDts
    /\ m_collisions = <<>>
    /\ m_eventQueue = <<>>
    /\ m_colorAffinity = "Red"
    /\ m_score = 0
    /\ m_combo = 0

\* m_physics.update alone
PhysicsOnly ==
    /\ pc = "physics"
    /\ LET r == PhysicSystemUpdate(m_entities, dt)
       IN  /\ m_entities' = r.ents
           /\ physCollisions' = r.rec
    /\ physPre' = m_entities
    /\ pc' = "synchronize"
    /\ UNCHANGED <<difficulty, tick, windowOpen, dt, m_components, lastid, nextComp,
                   m_player, m_collisions, ci, m_eventQueue, m_isRunning, m_colorAffinity,
                   m_score, m_combo, m_lastSugoiDisplay, m_lastAffinityChange,
                   m_lastSakuraShoot, m_lastBallSpawn, sounds, deletedEntities,
                   deletedComponents, deathLog, zeroTick, handled, ret>>

NextPhys == PhysicsOnly

SpecPhys == InitPhys /\ [][NextPhys]_vars

(***************************************************************************)
(* PhysicSystem::update on scenes with a mover A and two obstacles B and   *)
(* C, all blocking, with the obstacles in either order in the entity list. *)
(***************************************************************************)
MaxMultiCoord == 3

\* Left and top coordinates of the second obstacle
MultiLefts == {4, 5, 6}
MultiTops == {6, 7, 8}

\* The scene of PhysScene with the obstacle C (entity 3) added, before B when
\* cFirst and after it otherwise
MultiScene(ax, ay, vx, vy, cx, cy, cFirst) ==
    LET w  == PhysScene(ax, ay, vx, vy, TRUE, TRUE)
        c0 == addComponent(addComponent(NewEntity(3, "C"), "DeletionMarker", 6), "Hitbox", 7)
        c  == [c0 EXCEPT !.hitbox = Rect(cx, cy, PhysSize, PhysSize)]
    IN  WorldOf(IF cFirst THEN <<w.ents[1], c, w.ents[2]>> ELSE <<w.ents[1], w.ents[2], c>>,
                w.comps \o <<6, 7>>, 3, 8)

InitMulti ==
    /\ \E ax \in 0..MaxMultiCoord, ay \in 0..MaxMultiCoord, vx \in PhysVelocities,
          vy \in PhysVelocities, cx \in MultiLefts, cy \in MultiTops, cFirst \in BOOLEAN :
          WorldInit("NORMAL", MultiScene(ax, ay, vx, vy, cx, cy, cFirst))
    /\ pc = "physics"
    /\ dt \in {MAX_STEP}
    /\ m_collisions = <<>>
    /\ m_eventQueue = <<>>
    /\ m_colorAffinity = "Red"
    /\ m_score = 0
    /\ m_combo = 0

NextMulti == PhysicsOnly

SpecMulti == InitMulti /\ [][NextMulti]_vars

(***************************************************************************)
(* PhysicSystem::update on the scenes of SpecPhys with both hitboxes       *)
(* blocking, where the mover A may lack its Hitbox or its Movement         *)
(* component (Entity::removeComponent); B has a Hitbox and no Movement.    *)
(***************************************************************************)
\* The component A lacks ("Particle": none, A has no such component)
BareRemoved == {"Hitbox", "Movement", "Particle"}

InitBare ==
    /\ \E ax \in 0..MaxCoord, ay \in 0..MaxCoord, vx \in PhysVelocities, vy \in PhysVelocities,
          c \in BareRemoved :
          LET w == PhysScene(ax, ay, vx, vy, TRUE, TRUE)
          IN  WorldInit("NORMAL", [w EXCEPT !.ents[1] = removeComponent(@, c)])
    /\ pc = "physics"
    /\ dt \in PhysDts
    /\ m_collisions = <<>>
    /\ m_eventQueue = <<>>
    /\ m_colorAffinity = "Red"
    /\ m_score = 0
    /\ m_combo = 0

NextBare == PhysicsOnly

SpecBare == InitBare /\ [][NextBare]_vars

(***************************************************************************)
(* ParticleWatcherSystem::update on drawn pools: a World holding one       *)
(* explosion whose particles have any of the lifetimes of ParticleLifetimes.*)
(***************************************************************************)
MaxParticleTicks == 3

\* Lifetimes the constructor of Particle draws: (std::rand() % 2000) + 1000, in ms
ParticleLifetimes == {1000, 1500, 2000, 2999}

\* Frame times in ms
ParticleDts == {16, 100, 500}

ExplosionWorld(pool) ==
    LET w == createExplosion(WorldOf(<<>>, <<>>, 0, 1), "Red", Vec(0, 0))
    IN  [w EXCEPT !.ents[1].particles = pool]

InitParticles ==
    /\ \E ls \in [1..PoolSize -> ParticleLifetimes] :
          WorldInit("NORMAL", ExplosionWorld([k \in 1..PoolSize |-> Particle(ls[k])]))
    /\ pc = "particles"
    /\ dt = 0
    /\ m_collisions = <<>>
    /\ m_eventQueue = <<>>
    /\ m_colorAffinity = "Red"
    /\ m_score = 0
    /\ m_combo = 0

\* m_particleWatcher.update alone, once per tick
ParticlesOnly ==
    /\ pc = "particles" /\ tick < MaxParticleTicks
    /\ \E d \in ParticleDts :
          /\ dt' = d
          /\ m_entities' \in ParticleWatcherSystemUpdate(m_entities, d)
    /\ tick' = tick + 1
    /\ UNCHANGED <<difficulty, pc, windowOpen, m_components, lastid, nextComp,
                   m_player, physCollisions, m_collisions, ci, m_eventQueue, m_isRunning,
                   m_colorAffinity, m_score, m_combo, m_lastSugoiDisplay,
                   m_lastAffinityChange, m_lastSakuraShoot, m_lastBallSpawn, sounds,
                   deletedEntities, deletedComponents, deathLog, zeroTick, physPre, handled,
                   ret>>

NextParticles == ParticlesOnly

SpecParticles == InitParticles /\ [][NextParticles]_vars

(***************************************************************************)
(* The component interface of kantan::Entity on one entity made by         *)
(* World::createEntity: components are created and attached as the         *)
(* factories do, removed, and looked up under any name and class.          *)
(***************************************************************************)
MaxComponents == 5

InitEntity ==
    /\ WorldInit("NORMAL", createEntity(WorldOf(<<>>, <<>>, 0, 1), "Ball"))
    /\ pc = "entity"
    /\ dt = 0
    /\ m_collisions = <<>>
    /\ m_eventQueue = <<>>
    /\ m_colorAffinity = "Red"
    /\ m_score = 0
    /\ m_combo = 0

\* A factory that creates a component and does not attach it
AddComponentStepDetached ==
    /\ pc = "entity" /\ nextComp <= MaxComponents
    /\ \E n \in ComponentNames :
          LET w1 == createComponent(WorldOf(m_entities, m_components, lastid, nextComp))
          IN  /\ m_entities' = m_entities
              /\ m_components' = w1.comps
              /\ nextComp' = w1.nextComp
              /\ ret' = [NoCall EXCEPT !.op = "addComponent", !.name = n,
                                       !.before = m_entities[1]]
    /\ UNCHANGED <<difficulty, pc, tick, windowOpen, dt, lastid, m_player, physCollisions,
                   m_collisions, ci, m_eventQueue, m_isRunning, m_colorAffinity, m_score,
                   m_combo, m_lastSugoiDisplay, m_lastAffinityChange, m_lastSakuraShoot,
                   m_lastBallSpawn, sounds, deletedEntities, deletedComponents, deathLog,
                   zeroTick, physPre, handled>>

\* createComponent<T>() followed by entity->addComponent(component), as in the
\* factories of the World
AddComponentStep ==
    /\ pc = "entity" /\ nextComp <= MaxComponents
    /\ \E n \in ComponentNames :
          LET w1 == createComponent(WorldOf(m_entities, m_components, lastid, nextComp))
          IN  /\ m_entities' = [m_entities EXCEPT ![1] = addComponent(@, n, nextComp)]
              /\ m_components' = w1.comps
              /\ nextComp' = w1.nextComp
              /\ ret' = [NoCall EXCEPT !.op = "addComponent", !.name = n,
                                       !.before = m_entities[1]]
    /\ UNCHANGED <<difficulty, pc, tick, windowOpen, dt, lastid, m_player, physCollisions,
                   m_collisions, ci, m_eventQueue, m_isRunning, m_colorAffinity, m_score,
                   m_combo, m_lastSugoiDisplay, m_lastAffinityChange, m_lastSakuraShoot,
                   m_lastBallSpawn, sounds, deletedEntities, deletedComponents, deathLog,
                   zeroTick, physPre, handled>>

\* entity->removeComponent(name)
RemoveComponentStep ==
    /\ pc = "entity"
    /\ \E n \in ComponentNames :
          /\ m_entities' = [m_entities EXCEPT ![1] = removeComponent(@, n)]
          /\ ret' = [NoCall EXCEPT !.op = "removeComponent", !.name = n,
                                   !.before = m_entities[1]]
    /\ UNCHANGED <<difficulty, pc, tick, windowOpen, dt, m_components, lastid, nextComp,
                   m_player, physCollisions, m_collisions, ci, m_eventQueue, m_isRunning,
                   m_colorAffinity, m_score, m_combo, m_lastSugoiDisplay,
                   m_lastAffinityChange, m_lastSakuraShoot, m_lastBallSpawn, sounds,
                   deletedEntities, deletedComponents, deathLog, zeroTick, physPre, handled>>

\* entity->getComponent<T>(name)
GetComponentStep ==
    /\ pc = "entity"
    /\ \E n \in ComponentNames, T \in TypeNames :
          LET r == getComponent(m_entities[1], T, n)
          IN  /\ m_entities' = [m_entities EXCEPT ![1] = r.ent]
              /\ ret' = [NoCall EXCEPT !.op = "getComponent", !.name = n, !.type = T,
                                       !.value = r.value, !.before = m_entities[1]]
    /\ UNCHANGED <<difficulty, pc, tick, windowOpen, dt, m_components, lastid, nextComp,
                   m_player, physCollisions, m_collisions, ci, m_eventQueue, m_isRunning,
                   m_colorAffinity, m_score, m_combo, m_lastSugoiDisplay,
                   m_lastAffinityChange, m_lastSakuraShoot, m_lastBallSpawn, sounds,
                   deletedEntities, deletedComponents, deathLog, zeroTick, physPre, handled>>

NextEntity == AddComponentStep \/ RemoveComponentStep \/ GetComponentStep

SpecEntity == InitEntity /\ [][NextEntity]_vars

(***************************************************************************)
(* LifeSystem::update called again and again on the entity list the        *)
(* collision effects leave when a ball has reached the player: the ball is *)
(* marked for deletion, the player has lost one life per pair handled.     *)
(***************************************************************************)
MaxLifeCalls == 3

\* Lifepoints of the player before the contact
PlayerLives == {1, 2, 3}

\* The records PhysicSystem::update can leave for a ball (37) in contact with
\* the player (1): both have a Movement component
HitRecords == {<<>>, <<<<37, 1>>>>, <<<<1, 37>>>>, <<<<1, 37>>, <<37, 1>>>>}

\* CollisionEffectsSystem::update on the record rec
RECURSIVE CollisionEffects(_, _)
CollisionEffects(st, rec) ==
    IF rec = <<>> THEN st
    ELSE CollisionEffects(CollisionEffect(st, Head(rec)[1], Head(rec)[2]), Tail(rec))

InitLife ==
    /\ \E d \in Difficulties, lp \in PlayerLives, rec \in HitRecords :
          LET w  == CollideWorld(d, 0)
              st == CollisionEffects([ents  |-> [w.ents EXCEPT ![1].lifepoints = lp],
                                      queue |-> <<>>], rec)
          IN  /\ WorldInit(d, [w EXCEPT !.ents = st.ents])
              /\ m_eventQueue = st.queue
    /\ pc = "life"
    /\ dt = 0
    /\ m_collisions = <<>>
    /\ m_colorAffinity = "Red"
    /\ m_score = 0
    /\ m_combo = 0

\* m_lifes.update alone, once per tick
LifeOnly ==
    /\ pc = "life" /\ tick < MaxLifeCalls
    /\ LET r   == LifeSystemUpdate(m_entities, m_eventQueue)
           new == SubSeq(r.queue, Len(m_eventQueue) + 1, Len(r.queue))
       IN  /\ m_entities' = r.ents
           /\ m_eventQueue' = r.queue
           /\ deathLog' = deathLog \o [k \in 1..Len(new) |-> <<tick, new[k].entity>>]
    /\ tick' = tick + 1
    /\ UNCHANGED <<difficulty, pc, windowOpen, dt, m_components, lastid, nextComp,
                   m_player, physCollisions, m_collisions, ci, m_isRunning,
                   m_colorAffinity, m_score, m_combo, m_lastSugoiDisplay,
                   m_lastAffinityChange, m_lastSakuraShoot, m_lastBallSpawn, sounds,
                   deletedEntities, deletedComponents, zeroTick, physPre, handled, ret>>

NextLife == LifeOnly

SpecLife == InitLife /\ [][NextLife]_vars

(***************************************************************************)
(* CollisionEffectsSystem::update and cleanEntities on entity lists in     *)
(* which one entity may lack a component (Entity::removeComponent).        *)
(***************************************************************************)
\* The entity that loses a component: the player, the sakura or the ball
Victims == {1, 36, 37}

\* The component it loses ("Particle": none, no entity here has one)
Removed == {"Life", "Sprite", "DeletionMarker", "Particle"}

\* The pairs of the record: one pair among the player, a box, the sakura and the ball
GuardRecords == {<<p>> : p \in CollidePairs}

InitGuards ==
    /\ \E col \in {0, 64}, v \in Victims, c \in Removed :
          LET w == CollideWorld("NORMAL", col)
              i == IndexOf(w.ents, v)
          IN  WorldInit("NORMAL", [w EXCEPT !.ents[i] = removeComponent(@, c)])
    /\ pc \in {"collider", "clean"}
    /\ dt = 0
    /\ m_collisions \in (IF pc = "collider" THEN GuardRecords ELSE {<<>>})
    /\ m_eventQueue = <<>>
    /\ m_colorAffinity = "Red"
    /\ m_score = 0
    /\ m_combo = 0

\* CollisionEffectsSystem::update dereferences a null pointer
ColliderFault ==
    /\ pc = "collider" /\ ci <= Len(m_collisions)
    /\ PairFaults(m_entities, m_collisions[ci][1], m_collisions[ci][2])
    /\ pc' = "nullDereference"
    /\ UNCHANGED <<difficulty, tick, windowOpen, dt, m_entities, m_components, lastid,
                   nextComp, m_player, physCollisions, m_collisions, ci, m_eventQueue,
                   m_isRunning, m_colorAffinity, m_score, m_combo, m_lastSugoiDisplay,
                   m_lastAffinityChange, m_lastSakuraShoot, m_lastBallSpawn, sounds,
                   deletedEntities, deletedComponents, deathLog, zeroTick, physPre, handled,
                   ret>>

\* cleanEntities dereferences a null pointer
CleanFault ==
    /\ pc = "clean"
    /\ \E i \in 1..Len(m_entities) : ~hasComponent(m_entities[i], "DeletionMarker")
    /\ pc' = "nullDereference"
    /\ UNCHANGED <<difficulty, tick, windowOpen, dt, m_entities, m_components, lastid,
                   nextComp, m_player, physCollisions, m_collisions, ci, m_eventQueue,
                   m_isRunning, m_colorAffinity, m_score, m_combo, m_lastSugoiDisplay,
                   m_lastAffinityChange, m_lastSakuraShoot, m_lastBallSpawn, sounds,
                   deletedEntities, deletedComponents, deathLog, zeroTick, physPre, handled,
                   ret>>

NextGuards == ColliderStep \/ ColliderFault \/ ColliderEnd \/ Clean \/ CleanFault

SpecGuards == InitGuards /\ [][NextGuards]_vars

(***************************************************************************)
(* PhysicSystem::update in the float arithmetic of the source, on the      *)
(* scene of the game: the player and the walls of the World after init(),  *)
(* positions and sizes in pixels, velocities in pixels per second.         *)
(***************************************************************************)
MaxFloatTicks == 2

\* Frame times returned by gameclock.restart(), in microseconds.
FrameMicros == {16667, 78000, 136000}

\* An entity of the world with the data of its hitbox and movement as floats
FloatEntity(e) ==
    [e EXCEPT !.hitbox = Rect(FromInt(e.hitbox.left \div 2), FromInt(e.hitbox.top \div 2),
                              FromInt(e.hitbox.width \div 2), FromInt(e.hitbox.height \div 2)),
              !.velocity = Vec(FromInt(e.velocity.x \div 2), FromInt(e.velocity.y \div 2))]

FloatWorld(d) ==
    LET w == InitialWorld(d)
    IN  [w EXCEPT !.ents = [i \in 1..Len(w.ents) |-> FloatEntity(w.ents[i])]]

\* sf::FloatRect::intersects, for rectangles of non-negative size
IntersectsF(a, b) ==
    /\ FLess(FMax(a.left, b.left), FMin(FAdd(a.left, a.width), FAdd(b.left, b.width)))
    /\ FLess(FMax(a.top, b.top), FMin(FAdd(a.top, a.height), FAdd(b.top, b.height)))

\* fstNewHitbox
MovedF(h, v, d) ==
    [h EXCEPT !.left = FAdd(h.left, FMul(v.x, d)), !.top = FAdd(h.top, FMul(v.y, d))]

CollisionSideF(f, s) ==
    IF FLeq(FAdd(f.top, f.height), s.top) THEN "bottom"
    ELSE IF FLeq(FAdd(s.top, s.height), f.top) THEN "top"
    ELSE IF FLeq(FAdd(f.left, f.width), s.left) THEN "right"
    ELSE IF FLeq(FAdd(s.left, s.width), f.left) THEN "left"
    ELSE "intern"

CorrectedMovementF(f, v, s, d) ==
    CHOOSE m \in
      { IF ~IntersectsF(MovedF(f, v, d), s) THEN movement
        ELSE IF side = "bottom"
        THEN [movement EXCEPT !.y = FSub(s.top, FAdd(f.top, f.height))]
        ELSE IF side = "top"
        THEN [movement EXCEPT !.y = FNeg(FSub(f.top, FAdd(s.top, s.height)))]
        ELSE IF side = "right"
        THEN [movement EXCEPT !.x = FSub(s.left, FAdd(f.left, f.width))]
        ELSE IF side = "left"
        THEN [movement EXCEPT !.x = FNeg(FSub(f.left, FAdd(s.left, s.width)))]
        ELSE movement
        : movement \in {Vec(FMul(v.x, d), FMul(v.y, d))}, side \in {CollisionSideF(f, s)} }
      : TRUE

\* One pass of the body of the inner loop, for the pair (ents[i], ents[j]);
\* st is [v, rec]: the velocity of ents[i] so far and the record so far.
PairStepF(ents, st, i, j, d) ==
    IF i = j \/ ~hasComponent(ents[j], "Hitbox") \/ ~hasComponent(ents[i], "Movement")
    THEN st
    ELSE CHOOSE r \in
           { [v   |-> IF ents[i].isBlocking /\ ents[j].isBlocking
                      THEN Vec(FDiv(movement.x, d), FDiv(movement.y, d))
                      ELSE st.v,
              rec |-> IF hit THEN Append(st.rec, <<ents[i].id, ents[j].id>>) ELSE st.rec]
             : movement \in {CorrectedMovementF(ents[i].hitbox, st.v, ents[j].hitbox, d)},
               hit \in {IntersectsF(MovedF(ents[i].hitbox, st.v, d), ents[j].hitbox)} }
           : TRUE

\* The inner loop of PhysicSystem::update from the j-th entity on
RECURSIVE PhysicsInnerF(_, _, _, _, _)
PhysicsInnerF(ents, st, i, j, d) ==
    IF j > Len(ents) THEN st
    ELSE CHOOSE r \in {PhysicsInnerF(ents, s1, i, j + 1, d) : s1 \in {PairStepF(ents, st, i, j, d)}}
           : TRUE

\* The body of the outer loop for ents[i]; st is [ents, rec].
MoveStepF(st, i, d) ==
    IF ~hasComponent(st.ents[i], "Hitbox") \/ ~hasComponent(st.ents[i], "Movement")
    THEN st
    ELSE CHOOSE s1 \in
           { [ents |-> [st.ents EXCEPT ![i].velocity = r.v,
                                       ![i].hitbox = MovedF(st.ents[i].hitbox, r.v, d)],
              rec  |-> r.rec]
             : r \in {PhysicsInnerF(st.ents, [v |-> st.ents[i].velocity, rec |-> st.rec],
                                    i, 1, d)} }
           : TRUE

\* The outer loop of PhysicSystem::update from the i-th entity on
RECURSIVE PhysicsOuterF(_, _, _)
PhysicsOuterF(st, i, d) ==
    IF i > Len(st.ents) THEN st
    ELSE CHOOSE r \in {PhysicsOuterF(s1, i + 1, d) : s1 \in {MoveStepF(st, i, d)}} : TRUE

PhysicSystemUpdateF(ents, d) == PhysicsOuterF([ents |-> ents, rec |-> <<>>], 1, d)

InitFloat ==
    /\ \E d \in Difficulties : WorldInit(d, FloatWorld(d))
    /\ pc = "physics"
    /\ dt = 0
    /\ m_collisions = <<>>
    /\ m_eventQueue = <<>>
    /\ m_colorAffinity = "Red"
    /\ m_score = 0
    /\ m_combo = 0

\* One World::update as far as the player and the walls go, called with a
\* frame time of us microseconds: the velocity of the player from the keys,
\* then m_physics.update; dt is the frame time in microseconds.
PhysicsStepF(us) ==
    /\ \E key \in Keys :
          LET speed == FromInt(PLAYER_SPEED(difficulty) \div 2)
              vx    == IF key = "Q" THEN FNeg(speed) ELSE IF key = "D" THEN speed ELSE FZero
              p     == IndexOf(m_entities, m_player)
          IN  \E ents0 \in {[m_entities EXCEPT ![p].velocity = Vec(vx, FZero)]} :
              \E d \in {Seconds(us)} :
              \E r \in {PhysicSystemUpdateF(ents0, d)} :
                  /\ dt' = us
                  /\ physPre' = ents0
                  /\ m_entities' = r.ents
                  /\ physCollisions' = r.rec
    /\ tick' = tick + 1
    /\ UNCHANGED <<difficulty, pc, windowOpen, m_components, lastid, nextComp,
                   m_player, m_collisions, ci, m_eventQueue, m_isRunning, m_colorAffinity,
                   m_score, m_combo, m_lastSugoiDisplay, m_lastAffinityChange,
                   m_lastSakuraShoot, m_lastBallSpawn, sounds, deletedEntities,
                   deletedComponents, deathLog, zeroTick, handled, ret>>

PhysicsFloat ==
    /\ pc = "physics" /\ tick < MaxFloatTicks
    /\ \E us \in FrameMicros : PhysicsStepF(us)

NextFloat == PhysicsFloat

SpecFloat == InitFloat /\ [][NextFloat]_vars

(***************************************************************************)
(* The same updates with frame times that include zero: sf::Clock::restart *)
(* returns whole microseconds, and 0 when less than one has passed.        *)
(***************************************************************************)
MaxZeroTicks == 2

\* Frame times returned by gameclock.restart(), in microseconds.
ZeroMicros == {0, 16667, 78000}

PhysicsZero ==
    /\ pc = "physics" /\ tick < MaxZeroTicks
    /\ \E us \in ZeroMicros : PhysicsStepF(us)

NextZero == PhysicsZero

SpecZero == InitFloat /\ [][NextZero]_vars

(***************************************************************************)
(* Properties.                                                             *)
(***************************************************************************)
Range(s) == {s[k] : k \in 1..Len(s)}

\* Number of occurrences of x in the sequence s
Count(s, x) == Cardinality({k \in 1..Len(s) : s[k] = x})

\* Number of EntityDeath events pushed so far for the entity id
DeathCount(id) == Cardinality({k \in 1..Len(deathLog) : deathLog[k][2] = id})

\* The names of the entities of the pair that the collider handles next
PairNames ==
    <<m_entities[IndexOf(m_entities, m_collisions[ci][1])].name,
      m_entities[IndexOf(m_entities, m_collisions[ci][2])].name>>

\* The collider is about to handle a pair
AtPair == pc = "collider" /\ ci <= Len(m_collisions)

\* C1: every EntityDeath event for an entity is pushed in the tick in which the
\* lifepoints of that entity first became <= 0; no entity ever has two such
\* events; and once the life pass of that tick has run the entity has exactly one.
C1_DeathUniqueness ==
    /\ \A k \in 1..Len(deathLog) :
          /\ deathLog[k][2] \in DOMAIN zeroTick
          /\ deathLog[k][1] = zeroTick[deathLog[k][2]]
    /\ \A id \in DOMAIN zeroTick :
          /\ DeathCount(id) <= 1
          /\ (tick > zeroTick[id] \/ pc \in {"drain", "particles", "clean", "aborted"})
                => DeathCount(id) = 1

\* An entity died in one tick and a whole later tick has run since.
C1_Witness ==
    /\ pc = "idle"
    /\ \E id \in DOMAIN zeroTick : DeathCount(id) = 1 /\ tick >= zeroTick[id] + 2

C3_Sweep ==
    [][(pc = "clean" /\ pc' = "idle") =>
          /\ \A i \in 1..Len(m_entities') : ~m_entities'[i].toDelete
          /\ m_entities' = SelectSeq(m_entities, LAMBDA e : ~e.toDelete)
          /\ \A i \in 1..Len(m_entities) :
                m_entities[i].toDelete =>
                    getAllComponents(m_entities[i]) \cap Range(m_components') = {}]_vars

\* Two entities that were next to each other in the list (a sakura and the
\* ball created right after it) were marked in the same tick and the sweep of
\* that tick has just removed both.
C3_Witness ==
    /\ pc = "idle"
    /\ \E id \in DOMAIN zeroTick :
          /\ id + 1 \in DOMAIN zeroTick
          /\ zeroTick[id] = zeroTick[id + 1]
          /\ tick = zeroTick[id] + 1
          /\ id \notin Ids(m_entities) /\ id + 1 \notin Ids(m_entities)

\* C4: once the World is destroyed, every entity that createEntity made and
\* every component that createComponent made has been deleted exactly once.
C4_ReleasedExactlyOnce ==
    pc = "destroyed" =>
        /\ \A id \in 1..lastid : Count(deletedEntities, id) = 1
        /\ \A c \in 1..(nextComp - 1) : Count(deletedComponents, c) = 1

\* C5: handling a (Ball, Player) or (Player, Ball) pair sets the lifepoints of
\* the ball to 0, marks the ball, takes one lifepoint from the player and pushes
\* one PlayerHit event that carries no data.
C5_BallPlayerReaction ==
    [][(AtPair /\ PairNames \in {<<"Ball", "Player">>, <<"Player", "Ball">>}) =>
          LET f  == IndexOf(m_entities, m_collisions[ci][1])
              g  == IndexOf(m_entities, m_collisions[ci][2])
              bi == IF m_entities[f].name = "Ball" THEN f ELSE g
              pi == IF m_entities[f].name = "Ball" THEN g ELSE f
          IN  /\ m_entities'[bi].lifepoints = 0
              /\ m_entities'[bi].toDelete
              /\ m_entities'[pi].lifepoints = m_entities[pi].lifepoints - 1
              /\ m_eventQueue' = Append(m_eventQueue, PlayerHitEvent)]_vars

\* The first pair of the record was (Player, Ball) and has been handled.
C5_Witness ==
    /\ pc = "collider" /\ ci = 2
    /\ m_collisions[1] = <<1, 37>>
    /\ m_entities[37].name = "Ball" /\ m_entities[1].name = "Player"
    /\ m_entities[37].toDelete /\ m_entities[37].lifepoints = 0
    /\ m_entities[1].lifepoints = LIFE_POINTS(difficulty) - 1
    /\ m_eventQueue = <<PlayerHitEvent>>

\* C6: handling a (Sakura, Ball) or (Ball, Sakura) pair sets the lifepoints of
\* both entities to 0, marks both, and pushes one ColoredBallShot event with the
\* colour and the centre of the ball.
C6_SakuraBallSymmetric ==
    [][(AtPair /\ PairNames \in {<<"Sakura", "Ball">>, <<"Ball", "Sakura">>}) =>
          LET f  == IndexOf(m_entities, m_collisions[ci][1])
              g  == IndexOf(m_entities, m_collisions[ci][2])
              bi == IF m_entities[f].name = "Ball" THEN f ELSE g
              si == IF m_entities[f].name = "Ball" THEN g ELSE f
          IN  /\ m_entities'[bi].lifepoints = 0 /\ m_entities'[si].lifepoints = 0
              /\ m_entities'[bi].toDelete /\ m_entities'[si].toDelete
              /\ m_eventQueue' = Append(m_eventQueue,
                                     ColoredBallShotEvent(BallColor(m_entities[bi].texLeft),
                                                          SpriteCenter(m_entities[bi])))]_vars

\* C7: when a tick ends the game runs exactly if the player has lifepoints
\* left; the flag is cleared only while handling a PlayerHit event, in the tick
\* in which the lifepoints of the player reached <= 0; it is never set again.
C7_GameOver ==
    [][/\ (pc = "clean" /\ pc' = "idle") =>
             (~m_isRunning' <=> m_entities'[IndexOf(m_entities', m_player)].lifepoints <= 0)
       /\ ~m_isRunning => ~m_isRunning'
       /\ (m_isRunning /\ ~m_isRunning') =>
             /\ pc = "drain" /\ m_eventQueue # <<>>
             /\ Head(m_eventQueue).type = "PlayerHit"
             /\ m_player \in DOMAIN zeroTick /\ zeroTick[m_player] = tick]_vars

\* The tick in which the player lost the last lifepoint has ended and the game
\* does not run.
C7_Witness ==
    /\ pc = "idle" /\ ~m_isRunning
    /\ m_entities[IndexOf(m_entities, m_player)].lifepoints <= 0
    /\ m_player \in DOMAIN zeroTick /\ tick = zeroTick[m_player] + 1

\* The head of the queue is a ColoredBallShot event about to be handled
AtBallShot ==
    pc = "drain" /\ m_eventQueue # <<>> /\ Head(m_eventQueue).type = "ColoredBallShot"

\* C8: handling a ColoredBallShot event of the affinity colour adds 1 to the
\* combo, then adds the new combo to the score if it is above COMBO_MIN and 1
\* otherwise, and fires the sugoi milestone exactly if the new combo is above
\* COMBO_MIN and a multiple of SUGOI_COMBO (12 -> 13: no milestone; 19 -> 20 with
\* COMBO_MIN = 5 and SUGOI_COMBO = 10: milestone and score + 20).
C8_MatchingScoring ==
    [][(AtBallShot /\ Head(m_eventQueue).color = m_colorAffinity) =>
          LET n    == m_combo + 1
              fire == n > COMBO_MIN(difficulty) /\ n % SUGOI_COMBO(difficulty) = 0
          IN  /\ m_combo' = n
              /\ m_score' = IF n > COMBO_MIN(difficulty) THEN m_score + n ELSE m_score + 1
              /\ ("sugoi" \in sounds') <=> fire
              /\ m_lastSugoiDisplay' = IF fire THEN 0 ELSE m_lastSugoiDisplay
              /\ (difficulty \in {"EASY", "NORMAL"} /\ m_combo = 12) =>
                    (m_combo' = 13 /\ "sugoi" \notin sounds')
              /\ (difficulty \in {"EASY", "NORMAL"} /\ m_combo = 19) =>
                    (m_combo' = 20 /\ "sugoi" \in sounds' /\ m_score' = m_score + 20)]_vars

\* A matching shot took the combo from 19 to 20 in NORMAL: milestone, score 0 + 20.
C8_Witness ==
    /\ handled.type = "ColoredBallShot" /\ handled.color = m_colorAffinity
    /\ difficulty = "NORMAL" /\ m_combo = 20 /\ m_score = 20
    /\ "sugoi" \in sounds /\ m_lastSugoiDisplay = 0

\* C9: handling a ColoredBallShot event of another colour than the affinity sets
\* the combo to 0 and takes exactly 1 from the score, whatever they were.
C9_MismatchedScoring ==
    [][(AtBallShot /\ Head(m_eventQueue).color # m_colorAffinity) =>
          /\ m_combo' = 0
          /\ m_score' = m_score - 1]_vars

\* A mismatched shot took the score from 0 to -1.
C9_Witness ==
    /\ handled.type = "ColoredBallShot" /\ handled.color # m_colorAffinity
    /\ m_combo = 0 /\ m_score = -1

\* C10: when the bottom edge of A before the movement is not below the top of B
\* and A moved by velocity * dt intersects B, the side is "bottom", the movement
\* is (velocity.x * dt, B.top - (A.top + A.height)), the pair is recorded, and
\* when both hitboxes are blocking A ends with its bottom edge on the top of B
\* and its horizontal displacement unchanged.
C10_BottomContact ==
    (pc = "synchronize" /\ Len(physPre) = 2) =>
        LET A   == physPre[1]
            B   == physPre[2]
            gap == B.hitbox.top - (A.hitbox.top + A.hitbox.height)
        IN  (/\ A.hitbox.top + A.hitbox.height <= B.hitbox.top
             /\ Intersects(Moved(A.hitbox, A.velocity, dt), B.hitbox))
            => /\ CollisionSide(A.hitbox, B.hitbox) = "bottom"
               /\ CorrectedMovement(A.hitbox, A.velocity, B.hitbox, dt)
                     = Vec(Displacement(A.velocity.x, dt), gap)
               /\ <<A.id, B.id>> \in Range(physCollisions)
               /\ (A.isBlocking /\ B.isBlocking) =>
                     /\ m_entities[1].hitbox.top = A.hitbox.top + gap
                     /\ m_entities[1].hitbox.left
                           = A.hitbox.left + Displacement(A.velocity.x, dt)

\* A blocking mover one unit above a blocking obstacle moved down and sideways:
\* it stopped on the obstacle.
C10_Witness ==
    /\ pc = "synchronize" /\ Len(physPre) = 2
    /\ physPre[1].isBlocking /\ physPre[2].isBlocking
    /\ physPre[1].hitbox.top + physPre[1].hitbox.height < physPre[2].hitbox.top
    /\ physPre[1].velocity.x # 0
    /\ Intersects(Moved(physPre[1].hitbox, physPre[1].velocity, dt), physPre[2].hitbox)
    /\ m_entities[1].hitbox.top + m_entities[1].hitbox.height = physPre[2].hitbox.top
    /\ m_entities[1].hitbox.left # physPre[1].hitbox.left

\* The entity of the list before the last physics update with the given identity
PreOf(id) == physPre[IndexOf(physPre, id)]

\* The pairs of the last physics update with two blocking hitboxes whose mover
\* did not overlap the other entity before moving
BlockingPairs ==
    {k \in 1..Len(physCollisions) :
        /\ PreOf(physCollisions[k][1]).isBlocking
        /\ PreOf(physCollisions[k][2]).isBlocking
        /\ ~IntersectsF(PreOf(physCollisions[k][1]).hitbox, PreOf(physCollisions[k][2]).hitbox)}

\* C11: for every recorded pair (A, B) with both hitboxes blocking and A not
\* overlapping B before moving, the velocity A is left with, times dt, is the
\* clamped displacement (the gap to B on the axis of the contact), and the
\* hitbox of A after the movement does not intersect the hitbox of B.
C11_BlockingResponse ==
    \A k \in BlockingPairs :
        LET A    == PreOf(physCollisions[k][1])
            B    == PreOf(physCollisions[k][2])
            A2   == m_entities[IndexOf(m_entities, A.id)]
            side == CollisionSideF(A.hitbox, B.hitbox)
            mx   == FMul(A2.velocity.x, Seconds(dt))
            my   == FMul(A2.velocity.y, Seconds(dt))
        IN  /\ side = "bottom" => my = FSub(B.hitbox.top, FAdd(A.hitbox.top, A.hitbox.height))
            /\ side = "top" => my = FSub(FAdd(B.hitbox.top, B.hitbox.height), A.hitbox.top)
            /\ side = "right" => mx = FSub(B.hitbox.left, FAdd(A.hitbox.left, A.hitbox.width))
            /\ side = "left" => mx = FSub(FAdd(B.hitbox.left, B.hitbox.width), A.hitbox.left)
            /\ ~IntersectsF(A2.hitbox, B.hitbox)

\* The alpha an unsigned 8-bit colour channel holds for a float value when
\* the value is clamped to the range of the channel
ClampedAlpha(x) == IF FTrunc(x) < 0 THEN 0 ELSE IF FTrunc(x) > 255 THEN 255 ELSE FTrunc(x)

\* The particles the last ParticleWatcherSystem::update went through: those of
\* the emitters that have been updated and have not reached their lifetime
FadedParticles ==
    {pt \in UNION {Range(m_entities[i].particles) : i \in 1..Len(m_entities)} :
        \E i \in 1..Len(m_entities) :
            /\ hasComponent(m_entities[i], "Particle")
            /\ m_entities[i].plifetime > 0
            /\ m_entities[i].plifetime < EMITTER_LIFETIME
            /\ pt \in Range(m_entities[i].particles)}

\* C12: after ParticleWatcherSystem::update the alpha of the vertex of each
\* particle is 255 when its remaining lifetime is its initial lifetime, 0 when
\* its remaining lifetime is <= 0, and otherwise the value of 255 times the
\* remaining seconds clamped to 0..255 (never wrapped).
C12_ParticleFade ==
    \A pt \in FadedParticles :
        /\ pt.lifetime = pt.initial => pt.alpha = 255
        /\ pt.lifetime <= 0 => pt.alpha = 0
        /\ pt.alpha = ClampedAlpha(AlphaValue(pt.lifetime))

\* The entities the pairs of a collision record reference
Referenced(rec) == {rec[k][1] : k \in 1..Len(rec)} \cup {rec[k][2] : k \in 1..Len(rec)}

\* C13: after the sweep that ends a tick, the record of the physics system and
\* the record of the collision-effects system hold no pair (every pair they
\* could hold was produced in that tick), and so reference no entity that the
\* sweep removed.
C13_NoRetainedRecords ==
    (pc = "idle" /\ tick > 0) =>
        /\ physCollisions = <<>>
        /\ m_collisions = <<>>
        /\ Referenced(physCollisions) \cup Referenced(m_collisions) \subseteq Ids(m_entities)

C16_SoftLookup ==
    ret.op = "getComponent" =>
        /\ m_entities[1] = ret.before
        /\ IF ~hasComponent(ret.before, ret.name) \/ ~CastsTo(ret.name, ret.type)
           THEN ret.value = 0
           ELSE ret.value = ret.before.comps[ret.name] /\ ret.value # 0

\* A lookup under a name the entity stores, for a class the stored component
\* is not an instance of, has returned null.
C16_Witness ==
    /\ ret.op = "getComponent"
    /\ hasComponent(ret.before, ret.name)
    /\ ~CastsTo(ret.name, ret.type)
    /\ ret.value = 0

\* The entity with identity id is in the list ents, has a DeletionMarker
\* component whose toDelete is false, and this component is in the registry
\* comps, once.
FreshlyMarked(ents, comps, id) ==
    \E i \in 1..Len(ents) :
        /\ ents[i].id = id
        /\ Cardinality({k \in 1..Len(ents) : ents[k].id = id}) = 1
        /\ hasComponent(ents[i], "DeletionMarker")
        /\ ~ents[i].toDelete
        /\ Count(comps, ents[i].comps["DeletionMarker"]) = 1

\* C15: every entity createEntity returns (the entities of init() and those
\* a step of World::update creates) is in the entity list and has exactly one
\* DeletionMarker component, with toDelete false, that is in the registry.
C15_CreatedWithMarker ==
    /\ \A id \in 1..lastid : FreshlyMarked(m_entities, m_components, id)
    /\ [][\A id \in (lastid + 1)..lastid' : FreshlyMarked(m_entities', m_components', id)]_vars

\* An update has created an explosion, which is in the list with its marker.
C15_Witness ==
    \E i \in 1..Len(m_entities) :
        /\ m_entities[i].name = "Explosion"
        /\ m_entities[i].id = lastid
        /\ FreshlyMarked(m_entities, m_components, lastid)

\* C17: every EntityDeath event a step pushes is for an entity that had
\* lifepoints <= 0 and alive = true before the step; an entity whose alive
\* flag is already false gets no EntityDeath event, also when it is still in
\* the list with lifepoints <= 0.
C17_DeathOnlyWhileAlive ==
    [][\A k \in (Len(m_eventQueue) + 1)..Len(m_eventQueue') :
          m_eventQueue'[k].type = "EntityDeath" =>
              \E i \in 1..Len(m_entities) :
                  /\ m_entities[i].id = m_eventQueue'[k].entity
                  /\ m_entities[i].lifepoints <= 0
                  /\ m_entities[i].alive]_vars

\* C18: CollisionEffectsSystem::update and cleanEntities run to their end
\* without dereferencing a null pointer, also when an entity named Ball,
\* Sakura or Player lacks its Life or Sprite component or an entity lacks its
\* DeletionMarker.
C18_GuardedDereference == pc # "nullDereference"

\* C19: after the sweep that ends a tick after which the game still runs,
\* every entity left in the list that has a Life component has lifepoints > 0.
C19_NoPersistentDeadLife ==
    (pc = "idle" /\ tick > 0 /\ m_isRunning) =>
        \A i \in 1..Len(m_entities) :
            hasComponent(m_entities[i], "Life") => m_entities[i].lifepoints > 0

\* The game still runs after the sweep of a tick in which the lifepoints of
\* an entity reached 0: the entity is gone, entities with a Life component stay.
C19_Witness ==
    /\ pc = "idle" /\ tick > 0 /\ m_isRunning
    /\ \E id \in DOMAIN zeroTick : zeroTick[id] = tick - 1 /\ id \notin Ids(m_entities)
    /\ \E i \in 1..Len(m_entities) : hasComponent(m_entities[i], "Life")

\* C20: the event queue is empty once the drain of an update is over; events
\* are pushed at the tail only, by the collision effects (one pair after the
\* other, in record order) and then by the life pass, whose death events
\* follow the order of the entity list and come after every collision-effect
\* event; the queue shrinks only by the drain handling its head.  So every
\* event pushed in a tick is handled exactly once, in that tick, in push order.
C20_EventDrain ==
    /\ [](pc \in {"particles", "clean", "idle"} => m_eventQueue = <<>>)
    /\ [](\A k \in 1..Len(m_eventQueue), l \in 1..Len(m_eventQueue) :
             (k < l /\ m_eventQueue[k].type = "EntityDeath")
                 => m_eventQueue[l].type = "EntityDeath")
    /\ [][/\ Len(m_eventQueue') > Len(m_eventQueue) =>
               /\ pc \in {"collider", "life"}
               /\ SubSeq(m_eventQueue', 1, Len(m_eventQueue)) = m_eventQueue
          /\ (pc = "life" /\ pc' = "drain") =>
               \A k \in (Len(m_eventQueue) + 1)..Len(m_eventQueue') :
                   /\ m_eventQueue'[k].type = "EntityDeath"
                   /\ \A l \in (k + 1)..Len(m_eventQueue') :
                         IndexOf(m_entities, m_eventQueue'[k].entity)
                             < IndexOf(m_entities, m_eventQueue'[l].entity)
          /\ (m_eventQueue' # m_eventQueue /\ Len(m_eventQueue') <= Len(m_eventQueue)) =>
               /\ pc = "drain" /\ pc' = "drain"
               /\ handled' = Head(m_eventQueue)
               /\ m_eventQueue' = Tail(m_eventQueue)]_vars

\* The drain of a tick is over after it handled, last, the death event of an
\* entity whose lifepoints reached 0 in this tick, behind a ColoredBallShot.
C20_Witness ==
    /\ pc = "particles"
    /\ m_eventQueue = <<>>
    /\ handled.type = "EntityDeath"
    /\ handled.entity \in DOMAIN zeroTick
    /\ zeroTick[handled.entity] = tick
    /\ \E i \in 1..Len(m_entities) : m_entities[i].name = "Explosion" /\ m_entities[i].plifetime = 0

\* The entities whose lifepoints the collision effects of the running tick
\* brought to <= 0
ZeroedNow == {id \in DOMAIN zeroTick : zeroTick[id] = tick}

\* C21: an entity whose lifepoints the collision effects bring to <= 0 in a
\* tick has its EntityDeath event pushed by the life pass of that tick and
\* handled by the drain of that tick, while the entity is still in the list:
\* when the sweep of the tick starts the event has been pushed, is no longer
\* queued, and the entity has not been removed.
C21_NoOneTickLag ==
    /\ []((pc \in {"drain", "particles", "clean"}) =>
             \A id \in ZeroedNow :
                /\ <<tick, id>> \in Range(deathLog)
                /\ id \in Ids(m_entities)
                /\ pc \in {"particles", "clean"} =>
                      EntityDeathEvent(id) \notin Range(m_eventQueue))
    /\ [][\A id \in DOMAIN zeroTick :
             (/\ EntityDeathEvent(id) \in Range(m_eventQueue)
              /\ EntityDeathEvent(id) \notin Range(m_eventQueue')) =>
                 /\ pc = "drain"
                 /\ handled' = EntityDeathEvent(id)
                 /\ zeroTick[id] = tick /\ tick' = tick
                 /\ id \in Ids(m_entities)]_vars

\* The sweep of a tick is about to remove a ball that a sakura hit in this
\* tick; its death event has been pushed and handled.
C21_Witness ==
    /\ pc = "clean"
    /\ \E id \in ZeroedNow :
          /\ m_entities[IndexOf(m_entities, id)].name = "Ball"
          /\ m_entities[IndexOf(m_entities, id)].toDelete
          /\ ~m_entities[IndexOf(m_entities, id)].alive
          /\ <<tick, id>> \in Range(deathLog)
    /\ m_eventQueue = <<>>
    /\ handled.type = "EntityDeath"

\* C22: when A moved by velocity * dt intersects B and the hitbox of A or of
\* B is not blocking, the pair (A, B) is in the collision record, A keeps the
\* velocity it had, and its hitbox has moved by the whole of velocity * dt.
C22_NonBlockingCollision ==
    (pc = "synchronize" /\ Len(physPre) = 2) =>
        LET A == physPre[1]
            B == physPre[2]
        IN  (/\ ~(A.isBlocking /\ B.isBlocking)
             /\ Intersects(Moved(A.hitbox, A.velocity, dt), B.hitbox))
            => /\ physCollisions = <<(<<A.id, B.id>>)>>
               /\ m_entities[1].velocity = A.velocity
               /\ m_entities[1].hitbox = Moved(A.hitbox, A.velocity, dt)

\* A mover that is not blocking, above a blocking obstacle, moved down into
\* it: the pair is recorded, the velocity kept, the hitboxes overlap.
C22_Witness ==
    /\ pc = "synchronize" /\ Len(physPre) = 2
    /\ ~physPre[1].isBlocking /\ physPre[2].isBlocking
    /\ CollisionSide(physPre[1].hitbox, physPre[2].hitbox) = "bottom"
    /\ physPre[1].hitbox.top + physPre[1].hitbox.height < physPre[2].hitbox.top
    /\ physCollisions = <<(<<1, 2>>)>>
    /\ m_entities[1].velocity = physPre[1].velocity
    /\ Intersects(m_entities[1].hitbox, physPre[2].hitbox)

\* C23: when A moved by velocity * dt intersects B, the side is the first
\* that holds of bottom (A.bottom <= B.top), top (A.top >= B.bottom), right
\* (A.right <= B.left), left (A.left >= B.right), on the hitboxes before the
\* movement; the displacement is velocity * dt with only the axis of that
\* side set to the gap, and with both hitboxes blocking the velocity A is
\* left with is that displacement over dt.  When A is above and to the left
\* of B the vertical displacement is the gap and the horizontal one is kept.
C23_ClassificationPriority ==
    (pc = "synchronize" /\ Len(physPre) = 2) =>
        LET A      == physPre[1]
            B      == physPre[2]
            f      == A.hitbox
            s      == B.hitbox
            mv     == Vec(Displacement(A.velocity.x, dt), Displacement(A.velocity.y, dt))
            bottom == f.top + f.height <= s.top
            top    == f.top >= s.top + s.height
            right  == f.left + f.width <= s.left
            left   == f.left >= s.left + s.width
            want   == IF bottom THEN Vec(mv.x, s.top - (f.top + f.height))
                      ELSE IF top THEN Vec(mv.x, (s.top + s.height) - f.top)
                      ELSE IF right THEN Vec(s.left - (f.left + f.width), mv.y)
                      ELSE IF left THEN Vec((s.left + s.width) - f.left, mv.y)
                      ELSE mv
        IN  Intersects(Moved(f, A.velocity, dt), s) =>
               /\ CorrectedMovement(f, A.velocity, s, dt) = want
               /\ (A.isBlocking /\ B.isBlocking) =>
                     m_entities[1].velocity = Vec(VelocityOf(want.x, dt), VelocityOf(want.y, dt))
               /\ (bottom /\ right) => want = Vec(mv.x, s.top - (f.top + f.height))

\* A blocking mover above and to the left of a blocking obstacle moved
\* diagonally into it: its vertical velocity was cut to the gap, its
\* horizontal velocity is the one it had.
C23_Witness ==
    /\ pc = "synchronize" /\ Len(physPre) = 2
    /\ physPre[1].isBlocking /\ physPre[2].isBlocking
    /\ physPre[1].hitbox.top + physPre[1].hitbox.height < physPre[2].hitbox.top
    /\ physPre[1].hitbox.left + physPre[1].hitbox.width < physPre[2].hitbox.left
    /\ physCollisions = <<(<<1, 2>>)>>
    /\ m_entities[1].velocity.x = physPre[1].velocity.x
    /\ m_entities[1].velocity.x > 0
    /\ m_entities[1].velocity.y # physPre[1].velocity.y
    /\ m_entities[1].hitbox.top + m_entities[1].hitbox.height = physPre[2].hitbox.top

\* None of the four side conditions holds for the hitboxes f and s
NoSide(f, s) ==
    /\ ~(f.top + f.height <= s.top)
    /\ ~(f.top >= s.top + s.height)
    /\ ~(f.left + f.width <= s.left)
    /\ ~(f.left >= s.left + s.width)

\* C24: in a collision of A with B (A moved by velocity * dt intersects B)
\* where the hitbox of A before the movement already overlaps B on both
\* axes, that is where none of the four side conditions holds, the
\* displacement of A for the pair is velocity * dt, unmodified, and the pair
\* (A, B) is in the collision record.
C24_InteriorCollision ==
    (pc = "synchronize" /\ Len(physPre) = 2) =>
        LET A  == physPre[1]
            B  == physPre[2]
            mv == Vec(Displacement(A.velocity.x, dt), Displacement(A.velocity.y, dt))
        IN  /\ NoSide(A.hitbox, B.hitbox) <=> Intersects(A.hitbox, B.hitbox)
            /\ (NoSide(A.hitbox, B.hitbox) /\ Intersects(Moved(A.hitbox, A.velocity, dt), B.hitbox))
                 => /\ CollisionSide(A.hitbox, B.hitbox) = "intern"
                    /\ CorrectedMovement(A.hitbox, A.velocity, B.hitbox, dt) = mv
                    /\ physCollisions = <<(<<A.id, B.id>>)>>
                    /\ IF A.isBlocking /\ B.isBlocking
                       THEN m_entities[1].velocity = Vec(VelocityOf(mv.x, dt), VelocityOf(mv.y, dt))
                       ELSE m_entities[1].hitbox = Moved(A.hitbox, A.velocity, dt)

\* A blocking mover that overlapped a blocking obstacle moved further into
\* it: the pair is recorded and the mover went the whole way.
C24_Witness ==
    /\ pc = "synchronize" /\ Len(physPre) = 2
    /\ physPre[1].isBlocking /\ physPre[2].isBlocking
    /\ Intersects(physPre[1].hitbox, physPre[2].hitbox)
    /\ physPre[1].hitbox # physPre[2].hitbox
    /\ physCollisions = <<(<<1, 2>>)>>
    /\ m_entities[1].hitbox = physPre[2].hitbox
    /\ m_entities[1].velocity = physPre[1].velocity

\* C25: PhysicSystem::update never records a pair whose first element is an
\* entity without a Hitbox or without a Movement component, and leaves the
\* hitbox of such an entity where it was.
C25_BareEntitiesStay ==
    [][pc = "physics" =>
          \A i \in 1..Len(m_entities) :
             (~hasComponent(m_entities[i], "Hitbox") \/ ~hasComponent(m_entities[i], "Movement"))
                => /\ \A k \in 1..Len(physCollisions') :
                         physCollisions'[k][1] # m_entities[i].id
                   /\ m_entities'[i].id = m_entities[i].id
                   /\ m_entities'[i].hitbox = m_entities[i].hitbox]_vars

\* A mover with a Movement component and no Hitbox, whose movement would take
\* its rectangle into the obstacle, stayed where it was and no pair was
\* recorded.
C25_Witness ==
    /\ pc = "synchronize" /\ Len(physPre) = 2
    /\ hasComponent(physPre[1], "Movement") /\ ~hasComponent(physPre[1], "Hitbox")
    /\ physPre[1].velocity.y > 0
    /\ Intersects(Moved(physPre[1].hitbox, physPre[1].velocity, dt), physPre[2].hitbox)
    /\ physCollisions = <<>>
    /\ m_entities[1].hitbox = physPre[1].hitbox

\* C26: handling a (Ball, Box) or (Box, Ball) pair sets the lifepoints of the
\* ball to 0 and marks the ball, changes nothing else on the ball, nothing on
\* the box nor on any other entity, and pushes no event.
C26_BallWallReaction ==
    [][(AtPair /\ PairNames \in {<<"Ball", "Box">>, <<"Box", "Ball">>}) =>
          LET f  == IndexOf(m_entities, m_collisions[ci][1])
              g  == IndexOf(m_entities, m_collisions[ci][2])
              bi == IF m_entities[f].name = "Ball" THEN f ELSE g
          IN  /\ m_entities' = [m_entities EXCEPT ![bi].lifepoints = 0, ![bi].toDelete = TRUE]
              /\ m_eventQueue' = m_eventQueue
              /\ m_components' = m_components]_vars

\* The first pair of the record was (Box, Ball) and has been handled: the
\* ball is marked with lifepoints 0, the box is as created, the queue is empty.
C26_Witness ==
    /\ pc = "collider" /\ ci = 2
    /\ m_collisions[1] = <<2, 37>>
    /\ m_entities[2].name = "Box" /\ m_entities[37].name = "Ball"
    /\ m_entities[37].toDelete /\ m_entities[37].lifepoints = 0
    /\ m_entities[2] = InitialWorld(difficulty).ents[2]
    /\ m_eventQueue = <<>>

\* The ordered pairs of names CollisionEffectsSystem::update reacts to
Dispatched ==
    {<<"Sakura", "Ball">>, <<"Ball", "Box">>, <<"Box", "Ball">>, <<"Ball", "Player">>,
     <<"Player", "Ball">>}

\* C27: handling a pair whose ordered names are none of those the collision
\* effects react to (Sakura/Box, Sakura/Player, Player/Box, Ball/Ball, ...)
\* changes no entity, so no lifepoints and no deletion mark, and pushes no event.
C27_UnrecognizedPairs ==
    [][(AtPair /\ PairNames \notin Dispatched) =>
          /\ m_entities' = m_entities
          /\ m_eventQueue' = m_eventQueue
          /\ m_components' = m_components
          /\ ci' = ci + 1]_vars

\* A record of two pairs, (Ball, Ball) then (Sakura, Box), has been handled
\* and the world is as it was created.
C27_Witness ==
    /\ pc = "collider" /\ ci = 3
    /\ m_collisions = <<(<<37, 39>>), (<<36, 2>>)>>
    /\ m_entities[37].name = "Ball" /\ m_entities[39].name = "Ball"
    /\ m_entities[36].name = "Sakura" /\ m_entities[2].name = "Box"
    /\ \E col \in {0, 64} : m_entities = PairWorld("NORMAL", col).ents
    /\ m_eventQueue = <<>>

\* The timers of the World
Timers == <<m_lastSakuraShoot, m_lastBallSpawn, m_lastSugoiDisplay, m_lastAffinityChange>>

\* C28: whatever time World::update is called with, the update runs with
\* min(dt, 0.5 s): each timer is advanced by this step (or reset to zero),
\* once, and by no more than 0.5 s; the physics and the particle watcher of
\* the tick run with this step, and every emitter ages by it.  The clamp
\* keeps 0.5 s and replaces the first time above it.
C28_DeltaTimeClamp ==
    /\ [](ClampMicros(499999) = 499999 /\ ClampMicros(500000) = 500000
            /\ ClampMicros(500001) = 500000)
    /\ [][/\ pc = "called" =>
               LET step == Min2(dt, MAX_STEP)
               IN  /\ dt' = step
                   /\ m_lastSakuraShoot' \in {0, m_lastSakuraShoot + step}
                   /\ m_lastBallSpawn' \in {0, m_lastBallSpawn + step}
                   /\ m_lastSugoiDisplay' = m_lastSugoiDisplay + step
                   /\ m_lastAffinityChange' = m_lastAffinityChange + step
          /\ pc \notin {"idle", "called"} =>
               /\ dt' = dt /\ dt <= MAX_STEP
               /\ \A k \in 1..4 : Timers'[k] \in {0, Timers[k]}
          /\ pc = "physics" =>
               m_entities' = SynchronizeSystemUpdate(PhysicSystemUpdate(m_entities, dt).ents)
          /\ pc = "particles" =>
               \A i \in 1..Len(m_entities) :
                   hasComponent(m_entities[i], "Particle") =>
                       m_entities'[i].plifetime = m_entities[i].plifetime + dt]_vars

\* The first update of a World was called with more than 0.5 s and has
\* reached its sweep: the step is 0.5 s and the affinity timer stands at 0.5 s.
C28_Witness ==
    /\ pc = "clean" /\ tick = 0
    /\ dt = MAX_STEP
    /\ m_lastAffinityChange = MAX_STEP
    /\ m_lastSugoiDisplay = SUGOI_DISPLAY_INIT + MAX_STEP

\* The cycle of the colour affinity
AffinityCycle ==
    [c \in Colors |-> CASE c = "Red" -> "Blue" [] c = "Blue" -> "Green"
                         [] c = "Green" -> "Yellow" [] c = "Yellow" -> "Red"]

\* C29: the colour affinity is always Red, Blue, Green or Yellow; it changes
\* only in the affinity check of an update whose timer is above
\* AFFINITY_CHANGE_INTERVAL, there it moves one step along Red -> Blue ->
\* Green -> Yellow -> Red and the timer is reset to zero; the check runs when
\* the event queue has been drained, so every ColoredBallShot event of the
\* tick is scored against the affinity the tick started with.
C29_AffinityRotation ==
    /\ [](m_colorAffinity \in Colors)
    /\ [][/\ m_colorAffinity' # m_colorAffinity =>
               /\ pc = "drain" /\ pc' = "particles"
               /\ m_eventQueue = <<>>
               /\ m_lastAffinityChange > AFFINITY_CHANGE_INTERVAL(difficulty)
               /\ m_colorAffinity' = AffinityCycle[m_colorAffinity]
               /\ m_lastAffinityChange' = 0
          /\ (pc = "drain" /\ pc' = "particles"
                 /\ m_lastAffinityChange > AFFINITY_CHANGE_INTERVAL(difficulty)) =>
               m_colorAffinity' # m_colorAffinity
          /\ AtBallShot =>
               /\ m_colorAffinity' = m_colorAffinity
               /\ m_combo' = IF Head(m_eventQueue).color = m_colorAffinity
                             THEN m_combo + 1 ELSE 0]_vars

\* The affinity has just gone from Red to Blue in a tick in which a red ball
\* was shot: the shot counted as a match.
C29_Witness ==
    /\ pc = "particles" /\ tick = 0
    /\ m_colorAffinity = "Blue"
    /\ m_lastAffinityChange = 0
    /\ "changeAffinity" \in sounds
    /\ m_combo = 1 /\ m_score = 1
    /\ \E i \in 1..Len(m_entities) :
          m_entities[i].name = "Explosion" /\ m_entities[i].pcolor = "Red"

\* The positions of the emitters in the entity list
Emitters == {i \in 1..Len(m_entities) : hasComponent(m_entities[i], "Particle")}

\* C30: an emitter is unmarked and younger than 2 s until the particle
\* watcher of an update brings its lifetime, which grows by the step of each
\* update, to 2 s or more; that update marks it and leaves its particles as
\* they were, and its sweep removes it from the entity list.  An emitter
\* that stays below 2 s stays unmarked, its particles are updated, and the
\* sweep keeps it.
C30_EmitterExpiry ==
    /\ [](\A i \in Emitters :
             IF pc = "clean"
             THEN m_entities[i].toDelete <=> m_entities[i].plifetime >= EMITTER_LIFETIME
             ELSE ~m_entities[i].toDelete /\ m_entities[i].plifetime < EMITTER_LIFETIME)
    /\ [][/\ pc = "particles" =>
               \A i \in Emitters :
                   /\ m_entities'[i].plifetime = m_entities[i].plifetime + dt
                   /\ IF m_entities[i].plifetime + dt >= EMITTER_LIFETIME
                      THEN /\ m_entities'[i].toDelete
                           /\ m_entities'[i].particles = m_entities[i].particles
                      ELSE /\ ~m_entities'[i].toDelete
                           /\ \A k \in 1..Len(m_entities[i].particles) :
                                 m_entities'[i].particles[k].lifetime
                                     = m_entities[i].particles[k].lifetime - dt
          /\ pc = "clean" =>
               \A i \in Emitters :
                   m_entities[i].toDelete <=> m_entities[i].id \notin Ids(m_entities')]_vars

\* The second update has ended; the two steps were 20 ms and 0.5 s, which
\* brought an emitter from 1.48 s to 2 s exactly: it is gone.
C30_Witness ==
    /\ pc = "idle" /\ tick = 2
    /\ m_lastAffinityChange = 520
    /\ 38 \notin Ids(m_entities)
    /\ \A i \in Emitters : m_entities[i].plifetime < EMITTER_LIFETIME

\* The position in the entity list of the ball of the pair handled next
PairBall ==
    LET f == IndexOf(m_entities, m_collisions[ci][1])
        g == IndexOf(m_entities, m_collisions[ci][2])
    IN  IF m_entities[f].name = "Ball" THEN f ELSE g

\* C31: the collider takes a life point from the player, or pushes a PlayerHit
\* event, only for a ball that no earlier pair has marked: one ball costs one
\* life point and one event at most.
C31_OneHitPerBall ==
    [][(/\ AtPair
        /\ \/ m_entities'[IndexOf(m_entities, m_player)].lifepoints
                 # m_entities[IndexOf(m_entities, m_player)].lifepoints
           \/ m_eventQueue' = Append(m_eventQueue, PlayerHitEvent))
          => ~m_entities[PairBall].toDelete]_vars

\* C32: the collider pushes a ColoredBallShot event only for a ball that no
\* earlier pair has marked: one ball is shot once at most, and so changes
\* score and combo once and spawns one explosion at most.
C32_OneShotPerBall ==
    [][(/\ AtPair
        /\ Len(m_eventQueue') = Len(m_eventQueue) + 1
        /\ m_eventQueue'[Len(m_eventQueue')].type = "ColoredBallShot")
          => ~m_entities[PairBall].toDelete]_vars

\* C33: a physics update with a zero time step leaves every velocity and
\* every hitbox as it found them.
C33_ZeroStepNoOp ==
    [][(tick' = tick + 1 /\ dt' = 0) =>
          \A i \in 1..Len(m_entities') :
              /\ m_entities'[i].velocity = physPre'[i].velocity
              /\ m_entities'[i].hitbox = physPre'[i].hitbox]_vars

\* The blocking hitboxes of a list other than that of the entity id
Blockers(ents, id) ==
    {ents[i].hitbox : i \in {k \in 1..Len(ents) : /\ ents[k].id # id
                                                  /\ hasComponent(ents[k], "Hitbox")
                                                  /\ ents[k].isBlocking}}

\* C34: a blocking mover that overlapped no blocking hitbox before the physics
\* update overlaps none after it.
C34_MultiBodySafety ==
    pc = "synchronize" =>
        \A i \in 1..Len(m_entities) :
            (/\ hasComponent(m_entities[i], "Hitbox") /\ hasComponent(m_entities[i], "Movement")
             /\ m_entities[i].isBlocking
             /\ \A h \in Blockers(physPre, m_entities[i].id) :
                    ~Intersects(PreOf(m_entities[i].id).hitbox, h))
              => \A h \in Blockers(m_entities, m_entities[i].id) :
                    ~Intersects(m_entities[i].hitbox, h)

\* C35: the player stays between the left wall (right edge at 64) and the
\* right wall (left edge at 704), and between two updates no ball is left
\* in the entity list that reaches below the top of the bottom wall (704).
C35_NoTunnelling ==
    LET player == m_entities[IndexOf(m_entities, m_player)]
    IN  /\ player.hitbox.left >= Px(BOX_SIZE)
        /\ player.hitbox.left + player.hitbox.width <= Px(704)
        /\ pc = "idle" =>
              \A i \in 1..Len(m_entities) :
                  m_entities[i].name = "Ball" =>
                      m_entities[i].hitbox.top + m_entities[i].hitbox.height <= Px(704)

\* The sakura at position i of the entity list is unmarked and has left the
\* field: it is above the line where the balls appear (top = -64) and above
\* every ball of the list.
Escaped(i) ==
    /\ m_entities[i].name = "Sakura"
    /\ ~m_entities[i].toDelete
    /\ m_entities[i].hitbox.top + m_entities[i].hitbox.height <= Px(-64)
    /\ \A k \in 1..Len(m_entities) :
          m_entities[k].name = "Ball" =>
              m_entities[i].hitbox.top + m_entities[i].hitbox.height <= m_entities[k].hitbox.top

\* C36: every sakura and every ball is removed in the end; in particular no
\* sakura flies on unmarked above the balls and the line where they appear,
\* where it rises and they fall and no update can record a pair for it.
C36_ProjectilesRemoved == \A i \in 1..Len(m_entities) : ~Escaped(i)

\* C37: the player entity is never marked for deletion: in every state, and so
\* at the start of every World::update, m_player is in the entity list, its
\* deletion marker is false and it carries its Movement, Hitbox and Life
\* components, a hit by a ball included.
C37_PlayerPersists ==
    \E p \in 1..Len(m_entities) :
        /\ m_entities[p].id = m_player
        /\ m_entities[p].name = "Player"
        /\ ~m_entities[p].toDelete
        /\ hasComponent(m_entities[p], "Movement")
        /\ hasComponent(m_entities[p], "Hitbox")
        /\ hasComponent(m_entities[p], "Life")

\* An update in which a ball hit the player has run to its end: cleanEntities
\* has taken the marked ball out of the list, the player has lost life points
\* and is still in the list.
C37_Witness ==
    /\ pc = "idle" /\ tick >= 1
    /\ \A i \in 1..Len(m_entities) : ~m_entities[i].toDelete /\ m_entities[i].name # "Ball"
    /\ \E p \in 1..Len(m_entities) :
          /\ m_entities[p].id = m_player
          /\ m_entities[p].lifepoints < LIFE_POINTS(difficulty)

\* C38: registry consistency.  After init() and after every World::update the
\* addresses held by m_components are exactly the components attached to the
\* entities of m_entities, each of them once: the registry has no duplicate, no
\* component is attached to two entities or under two names, no component of a
\* listed entity is missing and none of a removed entity remains.
C38_RegistryConsistency ==
    pc = "idle" =>
        LET attached(i) == getAllComponents(m_entities[i])
            registry    == {m_components[k] : k \in 1..Len(m_components)}
        IN  /\ registry = UNION {attached(i) : i \in 1..Len(m_entities)}
            /\ \A j, k \in 1..Len(m_components) :
                  m_components[j] = m_components[k] => j = k
            /\ \A i, j \in 1..Len(m_entities) :
                  i # j => attached(i) \cap attached(j) = {}
            /\ \A i \in 1..Len(m_entities) :
                  Cardinality(attached(i)) = Cardinality(DOMAIN m_entities[i].comps)

\* An update has ended in which the sweep removed entities while an explosion
\* created by the drain of the same or of an earlier update stays in the list.
C38_Witness ==
    /\ pc = "idle" /\ tick >= 1
    /\ Len(m_entities) < lastid
    /\ \E i \in 1..Len(m_entities) : m_entities[i].name = "Explosion"
    /\ \A i \in 1..Len(m_entities) : ~m_entities[i].toDelete

\* C39: collision-record well-formedness.  After PhysicSystem::update, and for
\* as long as the update that ran it lasts, every recorded pair (A, B) has
\* A # B, A and B are both in the entity list, and no ordered pair is recorded
\* twice.
C39_RecordWellFormed ==
    pc \in {"collider", "synchronize"} =>
        /\ \A k \in 1..Len(physCollisions) :
              /\ physCollisions[k][1] # physCollisions[k][2]
              /\ physCollisions[k][1] \in Ids(m_entities)
              /\ physCollisions[k][2] \in Ids(m_entities)
        /\ \A j, k \in 1..Len(physCollisions) :
              physCollisions[j] = physCollisions[k] => j = k

\* The physics has recorded a pair in both orders, (Player, Ball) and
\* (Ball, Player), and the pairs of the ball with the boxes under it.
C39_Witness ==
    /\ pc = "collider"
    /\ Len(physCollisions) >= 4
    /\ \E j, k \in 1..Len(physCollisions) :
          /\ physCollisions[j][1] = m_player
          /\ physCollisions[k] = <<physCollisions[j][2], m_player>>

\* The head of the queue is a PlayerHit event and the drain handles it
DrainsPlayerHit ==
    /\ pc = "drain" /\ m_eventQueue # <<>>
    /\ Head(m_eventQueue).type = "PlayerHit"
    /\ m_eventQueue' = Tail(m_eventQueue)

\* C40: every PlayerHit event the drain handles sets the combo to 0 and leaves
\* the score as it was, whether the hit ends the game (the player's lifepoints
\* are <= 0 and m_isRunning becomes false) or not (m_isRunning stays as it was).
C40_PlayerHitResetsCombo ==
    [][DrainsPlayerHit =>
          /\ m_combo' = 0
          /\ m_score' = m_score
          /\ m_isRunning' =
                (m_isRunning /\ m_entities[IndexOf(m_entities, m_player)].lifepoints > 0)]_vars

\* A PlayerHit event that ended the game has been handled with a combo of 3 and
\* a score of 7 before it: the combo is 0 and the score still 7.
C40_Witness ==
    /\ pc = "drain" /\ handled.type = "PlayerHit"
    /\ ~m_isRunning
    /\ m_combo = 0 /\ m_score = 7

====
